---------------------------- MODULE Spec2Model ----------------------------
(***************************************************************************)
(* Movie catalog browser: the catalog service (search, genre filter, sort, *)
(* combined pipeline), the All Movies page state machine (filter effect,   *)
(* pagination), the URL codec and the favourites store.                    *)
(*                                                                         *)
(* Strings the code inspects character by character (titles, search terms, *)
(* genre names, URL values) are sequences of one-character strings.        *)
(* Ratings are kept in tenths (8.8 is 88) so that comparisons are exact.   *)
(***************************************************************************)
EXTENDS Integers, Sequences, FiniteSets, TLC

VARIABLES
    catalog,          \* MovieService.movies
    \* ---- AllMoviesPage (and the search term App hands it)
    searchQuery, movies, filteredMovies, loading, mounted,
    selectedGenre, sortBy, viewMode,
    displayCount, hasMoreMovies, paginationMode, currentPage,
    lastAction,       \* history: the handler or effect that ran last
    \* ---- calls of the catalog service
    svcOp, svcQuery, svcGenre, svcSort, svcIn, svcOut,
    svcAfter,         \* the array handed to the call (for a call without a
                      \* list argument, MovieService.movies) after the call
    \* ---- URL codec
    urlOp, urlModel, urlParams, urlParsed,
    explorer,         \* MovieExplorer's search, genre, sort and view state
    debounce,         \* useDebounce's value, state and timers, and the
                      \* arguments and timers of a function made by debounce
    sync,             \* MovieExplorer's renders and effects, one at a time:
                      \* the state and searchParams of the last render, the
                      \* updates queued for the next, the effects to run
    \* ---- favourites store (useLocalStorage 'movie-favorites')
    route, favorites, storage, selectedMovie, isModalOpen, clearTimers,
    favoritesIsArray,    \* Array.isArray(favorites); favorites holds the
                         \* items of the array when it is one
    toggled, favBefore,  \* history: the run of toggles of one id, and the
                         \* favourites before the run
    storedValue,         \* the storedValue the last render read: the value
                         \* the rendered handlers close over and the page shows
    calls,               \* history: the last two calls of setValue
    home                 \* HomePage: whether it is mounted, and moviesByGenre

pageVars == <<searchQuery, movies, filteredMovies, loading, mounted,
              selectedGenre, sortBy, viewMode,
              displayCount, hasMoreMovies, paginationMode, currentPage,
              lastAction>>
svcVars  == <<svcOp, svcQuery, svcGenre, svcSort, svcIn, svcOut, svcAfter>>
urlVars  == <<urlOp, urlModel, urlParams, urlParsed, explorer, debounce, sync>>
favVars  == <<route, favorites, storage, selectedMovie, isModalOpen, clearTimers,
              favoritesIsArray, toggled, favBefore, storedValue, calls, home>>
vars     == <<catalog, pageVars, svcVars, urlVars, favVars>>

---------------------------------------------------------------------------
(* Bounds of the model.                                                    *)

\* Longest list of records handed to the service's list functions.
MaxListLen == 2
\* Number of records of the large catalog (beyond one page of 12).
BigCatalogSize == 25
\* Largest page number a page-change request carries.
MaxPageRequest == 4
\* Largest page number of a shared browse state.
MaxSharedPage == 3
\* The records whose heart is clicked are those with ids 1..MaxFavId.
MaxFavId == 2
\* Most timers of handleModalClose pending at once.
MaxClearTimers == 1
\* Number of clock ticks the delay of a debounce (300 ms) is divided into.
DebounceDelay == 3
\* The changes of a control the user makes in one run, and the timers of
\* loadMovies that are counted
MaxInputs == 2
MaxLoads == 2

---------------------------------------------------------------------------
(* Characters and strings.                                                 *)

UpperChars == <<"A","B","C","D","E","F","G","H","I","J","K","L","M",
                "N","O","P","Q","R","S","T","U","V","W","X","Y","Z">>
LowerChars == <<"a","b","c","d","e","f","g","h","i","j","k","l","m",
                "n","o","p","q","r","s","t","u","v","w","x","y","z">>
Digits     == <<"0","1","2","3","4","5","6","7","8","9">>

\* String.prototype.trim strips every white-space character; the model's
\* alphabet has two of them, the space and the tab.
WhiteSpace == {" ", "\t"}

IndexOf(seq, c) ==
    IF \E i \in 1..Len(seq) : seq[i] = c
    THEN CHOOSE i \in 1..Len(seq) : seq[i] = c /\ \A j \in 1..(i-1) : seq[j] # c
    ELSE 0

LowerChar(c) == IF IndexOf(UpperChars, c) > 0 THEN LowerChars[IndexOf(UpperChars, c)] ELSE c
UpperChar(c) == IF IndexOf(LowerChars, c) > 0 THEN UpperChars[IndexOf(LowerChars, c)] ELSE c

toLowerCase(s) == [i \in 1..Len(s) |-> LowerChar(s[i])]
toUpperCase(s) == [i \in 1..Len(s) |-> UpperChar(s[i])]

RECURSIVE trimStart(_)
trimStart(s) ==
    IF s # <<>> /\ Head(s) \in WhiteSpace THEN trimStart(Tail(s)) ELSE s

RECURSIVE trimEnd(_)
trimEnd(s) ==
    IF s # <<>> /\ s[Len(s)] \in WhiteSpace THEN trimEnd(SubSeq(s, 1, Len(s) - 1)) ELSE s

trim(s) == trimEnd(trimStart(s))

\* String.prototype.includes
includes(s, t) ==
    \E i \in 0..(Len(s) - Len(t)) : SubSeq(s, i + 1, i + Len(t)) = t

\* String.prototype.split with a one-character separator: every separator
\* ends a token, so adjacent separators give empty tokens.
RECURSIVE splitFrom(_, _, _)
splitFrom(s, sep, cur) ==
    IF s = <<>> THEN <<cur>>
    ELSE IF Head(s) = sep THEN <<cur>> \o splitFrom(Tail(s), sep, <<>>)
    ELSE splitFrom(Tail(s), sep, Append(cur, Head(s)))

split(s, sep) == splitFrom(s, sep, <<>>)

\* Array.prototype.includes
arrayIncludes(arr, x) == \E i \in 1..Len(arr) : arr[i] = x

\* Array.prototype.filter with the predicate given as the set it accepts
RECURSIVE filterIn(_, _)
filterIn(arr, keep) ==
    IF arr = <<>> THEN <<>>
    ELSE IF Head(arr) \in keep THEN <<Head(arr)>> \o filterIn(Tail(arr), keep)
    ELSE filterIn(Tail(arr), keep)

\* Array.prototype.slice(start, end): a negative index counts from the end
slice(arr, start, end) ==
    LET rel(k) == IF k < 0 THEN (IF Len(arr) + k < 0 THEN 0 ELSE Len(arr) + k)
                  ELSE (IF k > Len(arr) THEN Len(arr) ELSE k)
        lo == rel(start)
        hi == rel(end)
    IN  IF hi <= lo THEN <<>> ELSE SubSeq(arr, lo + 1, hi)

\* Math.ceil(a / b) for a >= 0, b > 0
MathCeilDiv(a, b) == (a + b - 1) \div b

\* Code-unit order of the alphabet (the default order of Array.prototype.sort)
CodeUnitOrder == <<"\t", " ", "%", "+", "-">> \o Digits \o <<":">> \o UpperChars \o LowerChars

RECURSIVE codeUnitLess(_, _)
codeUnitLess(a, b) ==
    IF b = <<>> THEN FALSE
    ELSE IF a = <<>> THEN TRUE
    ELSE IF Head(a) = Head(b) THEN codeUnitLess(Tail(a), Tail(b))
    ELSE IndexOf(CodeUnitOrder, Head(a)) < IndexOf(CodeUnitOrder, Head(b))

\* String.prototype.localeCompare in the root collation: white space, then
\* punctuation, symbols, digits and letters decide first, ignoring case; equal
\* up to case, the first difference of case decides, lower case first.
CollationOrder == <<"\t", " ", "-", ":", "%", "+">> \o Digits \o LowerChars

RECURSIVE primaryCompare(_, _)
primaryCompare(a, b) ==
    IF a = <<>> /\ b = <<>> THEN 0
    ELSE IF a = <<>> THEN -1
    ELSE IF b = <<>> THEN 1
    ELSE LET x == IndexOf(CollationOrder, LowerChar(Head(a)))
             y == IndexOf(CollationOrder, LowerChar(Head(b)))
         IN  IF x = y THEN primaryCompare(Tail(a), Tail(b))
             ELSE IF x < y THEN -1 ELSE 1

RECURSIVE caseCompare(_, _)
caseCompare(a, b) ==
    IF a = <<>> \/ b = <<>> THEN 0
    ELSE IF Head(a) = Head(b) THEN caseCompare(Tail(a), Tail(b))
    ELSE IF Head(a) = LowerChar(Head(a)) THEN -1 ELSE 1

localeCompare(a, b) ==
    IF primaryCompare(a, b) # 0 THEN primaryCompare(a, b) ELSE caseCompare(a, b)

---------------------------------------------------------------------------
(* The catalog.                                                            *)

All      == <<"a","l","l">>
SciFi    == <<"S","c","i","-","F","i">>
Action   == <<"A","c","t","i","o","n">>
Drama    == <<"D","r","a","m","a">>
Thriller == <<"T","h","r","i","l","l","e","r">>
Romance  == <<"R","o","m","a","n","c","e">>
Crime    == <<"C","r","i","m","e">>

Movie(id, title, year, genre, rating) ==
    [id |-> id, title |-> title, year |-> year, genre |-> genre, rating |-> rating]

fallbackMovies == <<
    Movie(1, <<"I","n","c","e","p","t","i","o","n">>, 2010, <<SciFi, Action>>, 88),
    Movie(2, <<"T","h","e"," ","D","a","r","k"," ","K","n","i","g","h","t">>, 2008, <<Action, Drama>>, 90),
    Movie(3, <<"I","n","t","e","r","s","t","e","l","l","a","r">>, 2014, <<SciFi, Drama>>, 86),
    Movie(4, <<"T","h","e"," ","M","a","t","r","i","x">>, 1999, <<SciFi, Action>>, 87),
    Movie(5, <<"P","a","r","a","s","i","t","e">>, 2019, <<Drama, Thriller>>, 86),
    Movie(6, <<"A","v","e","n","g","e","r","s",":"," ","E","n","d","g","a","m","e">>, 2019, <<Action, SciFi>>, 84),
    Movie(7, <<"L","a"," ","L","a"," ","L","a","n","d">>, 2016, <<Romance, Drama>>, 80),
    Movie(8, <<"J","o","k","e","r">>, 2019, <<Drama, Crime>>, 84) >>

\* Number.prototype.toString for n >= 0
RECURSIVE toString(_)
toString(n) ==
    IF n < 10 THEN <<Digits[n + 1]>> ELSE toString(n \div 10) \o <<Digits[(n % 10) + 1]>>

\* The imported data file: the seed records followed by further records of
\* the same shape, with ties of rating and year and repeated titles.
GenreCycle == <<Action, Crime, Drama, Romance, SciFi, Thriller>>

moviesDataRecord(i) ==
    Movie(i,
          <<"M","o","v","i","e"," ">> \o toString(i % 10),
          1990 + (i % 7),
          <<GenreCycle[(i % 6) + 1], GenreCycle[((i + 2) % 6) + 1]>>,
          70 + ((i * 7) % 25))

moviesData ==
    fallbackMovies \o [j \in 1..(BigCatalogSize - Len(fallbackMovies)) |->
                          moviesDataRecord(Len(fallbackMovies) + j)]

\* The data sources the service may be constructed from: the imported file,
\* the fallback when the import has no movies, and an empty list.
Catalogs == {fallbackMovies, moviesData, <<>>}

SetOf(arr) == {arr[i] : i \in 1..Len(arr)}

\* The characters of the string literals that travel through a URL
StringChars ==
       ("rating-desc" :> <<"r","a","t","i","n","g","-","d","e","s","c">>)
    @@ ("rating" :> <<"r","a","t","i","n","g">>)
    @@ ("year" :> <<"y","e","a","r">>)
    @@ ("title" :> <<"t","i","t","l","e">>)
    @@ ("grid" :> <<"g","r","i","d">>)
    @@ ("list" :> <<"l","i","s","t">>)
    @@ ("infinite" :> <<"i","n","f","i","n","i","t","e">>)
    @@ ("pages" :> <<"p","a","g","e","s">>)

---------------------------------------------------------------------------
(* MovieService                                                            *)

\* The operations below read the service's own list, this.movies; the
\* ...Of forms take it as their first argument.
getAllMovies == catalog

\* Array.prototype.sort() of strings: ascending code-unit order
RECURSIVE sortStrings(_)
sortStrings(S) ==
    IF S = {} THEN <<>>
    ELSE LET m == CHOOSE x \in S : \A y \in S \ {x} : codeUnitLess(x, y)
         IN  <<m>> \o sortStrings(S \ {m})

extractUniqueGenres ==
    sortStrings(UNION {SetOf(catalog[i].genre) : i \in 1..Len(catalog)})

getGenres == extractUniqueGenres

searchMatches(movie, searchTerm) ==
    LET title == toLowerCase(movie.title)
        words == split(searchTerm, " ")
    IN  \/ includes(title, searchTerm)
        \/ \E i \in 1..Len(words) : includes(title, words[i]) /\ Len(words[i]) > 2

searchMoviesOf(all, query) ==
    IF query = <<>> \/ trim(query) = <<>>
    THEN all
    ELSE LET searchTerm == trim(toLowerCase(query))
         IN  filterIn(all, {m \in SetOf(all) : searchMatches(m, searchTerm)})

searchMovies(query) == searchMoviesOf(catalog, query)

\* A genre filter that looks at the first (primary) genre only.
filterByPrimaryGenre(genre, list) ==
    IF genre = <<>> \/ genre = All
    THEN list
    ELSE filterIn(list, {m \in SetOf(list) : m.genre # <<>> /\ m.genre[1] = genre})

filterByGenre(genre, list) ==
    IF genre = <<>> \/ genre = All
    THEN list
    ELSE filterIn(list, {m \in SetOf(list) : arrayIncludes(m.genre, genre)})

\* A comparator that never answers "equal": ties are reported as "a after b".
compareMoviesNeverEqual(sortKey, a, b) ==
    CASE sortKey = "title"       -> IF localeCompare(a.title, b.title) >= 0 THEN 1 ELSE -1
      [] sortKey = "year"        -> IF b.year >= a.year THEN 1 ELSE -1
      [] sortKey = "rating"      -> IF a.rating >= b.rating THEN 1 ELSE -1
      [] sortKey = "rating-desc" -> IF b.rating >= a.rating THEN 1 ELSE -1

\* The comparators sortMovies hands to Array.prototype.sort
compareMovies(sortKey, a, b) ==
    CASE sortKey = "title"       -> localeCompare(a.title, b.title)
      [] sortKey = "year"        -> b.year - a.year
      [] sortKey = "rating"      -> a.rating - b.rating
      [] sortKey = "rating-desc" -> b.rating - a.rating

\* An unstable insertion: the element goes before the elements equal to it.
insertUnstable(sorted, x, sortKey) ==
    LET later == {i \in 1..Len(sorted) : compareMovies(sortKey, sorted[i], x) >= 0}
        pos   == IF later = {} THEN Len(sorted) + 1
                 ELSE CHOOSE i \in later : \A j \in later : i <= j
    IN  SubSeq(sorted, 1, pos - 1) \o <<x>> \o SubSeq(sorted, pos, Len(sorted))

\* Array.prototype.sort with a comparator: a stable sort.  Each element is
\* put after the elements that do not compare greater than it.
insertStable(sorted, x, sortKey) ==
    LET later == {i \in 1..Len(sorted) : compareMovies(sortKey, sorted[i], x) > 0}
        pos   == IF later = {} THEN Len(sorted) + 1
                 ELSE CHOOSE i \in later : \A j \in later : i <= j
    IN  SubSeq(sorted, 1, pos - 1) \o <<x>> \o SubSeq(sorted, pos, Len(sorted))

RECURSIVE arraySortFrom(_, _, _)
arraySortFrom(sorted, rest, sortKey) ==
    IF rest = <<>> THEN sorted
    ELSE arraySortFrom(insertStable(sorted, Head(rest), sortKey), Tail(rest), sortKey)

arraySort(list, sortKey) == arraySortFrom(<<>>, list, sortKey)

SortKeys == {"title", "year", "rating", "rating-desc"}

sortMovies(list, sortKey) ==
    IF sortKey \in SortKeys THEN arraySort(list, sortKey) ELSE list

\* A sortMovies that sorts the array it is given: Array.prototype.sort works
\* in place
sortMoviesArgumentSorted(list, sortKey) ==
    IF sortKey \in SortKeys THEN arraySort(list, sortKey) ELSE list

\* The array handed to sortMovies, after the call: sortMovies sorts
\* moviesCopy = [...movies], the argument keeps its order
sortMoviesArgument(list, sortKey) == list

\* getMovieStats, without its numeric summaries: the count, the genres and
\* the records rated 8.5 or more, best first (ratings are in tenths)
getMovieStats ==
    LET moviesCopy == getAllMovies
    IN  [totalMovies |-> Len(moviesCopy),
         genreCount  |-> Len(extractUniqueGenres),
         topRated    |-> arraySort(
             filterIn(moviesCopy, {m \in SetOf(moviesCopy) : m.rating >= 85}),
             "rating-desc"),
         genres      |-> extractUniqueGenres]

\* A pipeline whose genre filter runs on the service's whole list (the
\* default of filterByGenre's second parameter), dropping the search result.
getFilteredMoviesGenreOverAll(all, search, genre, sort) ==
    LET byGenre == IF genre # <<>> /\ genre # All
                   THEN filterByGenre(genre, all)
                   ELSE IF search # <<>> THEN searchMoviesOf(all, search) ELSE all
    IN  sortMovies(byGenre, sort)

getFilteredMoviesOf(all, search, genre, sort) ==
    LET searched == IF search # <<>> THEN searchMoviesOf(all, search) ELSE all
        byGenre  == IF genre # <<>> /\ genre # All
                    THEN filterByGenre(genre, searched) ELSE searched
    IN  sortMovies(byGenre, sort)

getFilteredMovies(search, genre, sort) == getFilteredMoviesOf(catalog, search, genre, sort)

---------------------------------------------------------------------------
(* Initial values of each component.                                       *)

moviesPerPage == 12

PageInit ==
    /\ searchQuery = <<>>
    /\ movies = <<>>
    /\ filteredMovies = <<>>
    /\ loading = TRUE
    /\ mounted = FALSE
    /\ selectedGenre = All
    /\ sortBy = "rating-desc"
    /\ viewMode = "grid"
    /\ displayCount = 12
    /\ hasMoreMovies = TRUE
    /\ paginationMode = "infinite"
    /\ currentPage = 1
    /\ lastAction = "init"

SvcInit ==
    /\ svcOp = "idle"
    /\ svcQuery = <<>>
    /\ svcGenre = All
    /\ svcSort = "rating-desc"
    /\ svcIn = <<>>
    /\ svcOut = <<>>
    /\ svcAfter = <<>>

\* The browse state of a page before any control was used
DefaultQuery ==
    [search |-> <<>>, genre |-> All, sort |-> StringChars["rating-desc"],
     view |-> StringChars["grid"], pagination |-> StringChars["infinite"],
     page |-> 1]

\* const params = {}: a field that was not assigned is the empty sequence,
\* an assigned one is the one-element sequence of its value
EmptyParams ==
    [search |-> <<>>, genre |-> <<>>, sort |-> <<>>, view |-> <<>>,
     pagination |-> <<>>, page |-> <<>>]

\* MovieExplorer before its first render: the useState initial values
ExplorerDefaults ==
    [mounted |-> FALSE, searchQuery |-> <<>>, selectedGenre |-> All,
     sortBy |-> StringChars["rating-desc"], viewMode |-> StringChars["grid"],
     keydown |-> <<>>]    \* history: the combination of the keydown just handled

\* A timer set by setTimeout: the value its callback closes over, the ticks
\* until it is due, and whether the handle (useDebounce's handler of the
\* latest effect, debounce's timeout) refers to it
Timer(v, ticks) == [value |-> v, remaining |-> ticks, latest |-> TRUE]

\* func has not run
NotCalled == <<"undefined">>

\* useDebounce(value, delay) after the first render and its effect, and a
\* function made by debounce(func, wait) that has not been called.
\* sinceInput and sinceCall are history: the ticks since the value changed
\* and since the last call, up to the delay.
DebounceOf(v) ==
    [value |-> v, debouncedValue |-> v, handlers |-> {Timer(v, DebounceDelay)},
     sinceInput |-> 0,
     args |-> NotCalled, ran |-> NotCalled, timeouts |-> {}, sinceCall |-> 0]

\* The user has changed no control yet
NoInput == <<"null">>

\* MovieExplorer's state of the four controls at useState's initial values
SyncDefaults ==
    [searchQuery |-> <<>>, selectedGenre |-> All,
     sortBy |-> StringChars["rating-desc"], viewMode |-> StringChars["grid"]]

\* MovieExplorer after its first render was committed with the given
\* URLSearchParams: state, searchParams and loading are what the last render
\* read, nextState, nextParams and nextLoading the updates queued for the next
\* render, paramsSet whether setSearchParams was called since the last render,
\* effects the effects of the last render that have not run yet, loads the
\* timers of loadMovies that are pending.  inputs and latest are history: the
\* number of changes the user made, and the user's last value of each control.
SyncOf(searchParams) ==
    [state |-> SyncDefaults, searchParams |-> searchParams, loading |-> TRUE,
     nextState |-> SyncDefaults, nextParams |-> searchParams, nextLoading |-> TRUE,
     paramsSet |-> FALSE,
     effects |-> {"initialize", "searchQuery", "selectedGenre", "sortBy", "viewMode"},
     loads |-> 0, inputs |-> 0,
     latest |-> [searchQuery |-> NoInput, selectedGenre |-> NoInput,
                 sortBy |-> NoInput, viewMode |-> NoInput]]

UrlInit ==
    /\ urlOp = "idle"
    /\ urlModel = DefaultQuery
    /\ urlParams = <<>>
    /\ urlParsed = EmptyParams
    /\ explorer = ExplorerDefaults
    /\ debounce = DebounceOf(<<>>)
    /\ sync = SyncOf(<<>>)

\* selectedMovie holds the id of the selected record, NoMovie standing for null
NoMovie == 0

FavInit ==
    /\ route = "all-movies"
    /\ favorites = <<>>
    /\ favoritesIsArray = TRUE
    /\ storage = <<>>
    /\ selectedMovie = NoMovie
    /\ isModalOpen = FALSE
    /\ clearTimers = 0
    /\ toggled = <<>>
    /\ favBefore = <<>>
    /\ storedValue = <<>>
    /\ calls = <<>>
    /\ home = [mounted |-> FALSE, moviesByGenre |-> <<>>]

---------------------------------------------------------------------------
(* Inputs of the genre and sort parameters.                                *)

Comedy == <<"C","o","m","e","d","y">>

GenreInputs ==
    {All, SciFi, Action, Drama, Thriller, Romance, Crime, toLowerCase(SciFi), Comedy}

SortInputs == SortKeys \cup {"rating-asc"}

---------------------------------------------------------------------------
(* Calls of the catalog service on drawn inputs.                           *)

SearchTerms ==
    { <<>>,
      <<" ">>,
      <<"d","a","r","k"," ","k","n","i","g","h","t">>,
      <<"d","a","r","k","\t","k","n","i","g","h","t">>,
      <<"d","a","r","k"," "," ","k","n","i","g","h","t">>,
      <<"i","n">>,
      <<"z","z"," ","k","n","i","g","h","t">>,
      <<"t","h"," ","z","z">>,
      <<" ","J","o","k","e","r"," ">>,
      <<"M","A","T","R","I","X">>,
      <<"m","o","v","i","e">>,
      <<"t","h","e">>,
      <<"z","z","z">> }

RECURSIVE SeqsUpTo(_, _)
SeqsUpTo(S, n) ==
    IF n = 0 THEN {<<>>}
    ELSE LET shorter == SeqsUpTo(S, n - 1)
         IN  shorter \cup {Append(l, x) : l \in shorter, x \in S}

InputLists == SeqsUpTo(SetOf(fallbackMovies), MaxListLen) \cup {catalog}

\* getMovieById: find with movie.id === parseInt(id), null when none
getMovieById(id) ==
    LET found == {i \in 1..Len(catalog) : catalog[i].id = id}
    IN  IF found = {} THEN NoMovie
        ELSE catalog[CHOOSE i \in found : \A j \in found : i <= j]

CallSearchMovies(query) ==
    /\ svcOp = "idle"
    /\ svcOp' = "searchMovies"
    /\ svcQuery' = query
    /\ svcIn' = catalog
    /\ svcOut' = searchMovies(query)
    /\ svcAfter' = catalog
    /\ UNCHANGED <<svcGenre, svcSort>>
    /\ UNCHANGED <<catalog, pageVars, urlVars, favVars>>

CallFilterByGenre(genre, list) ==
    /\ svcOp = "idle"
    /\ svcOp' = "filterByGenre"
    /\ svcGenre' = genre
    /\ svcIn' = list
    /\ svcOut' = filterByGenre(genre, list)
    /\ svcAfter' = list
    /\ UNCHANGED <<svcQuery, svcSort>>
    /\ UNCHANGED <<catalog, pageVars, urlVars, favVars>>

CallSortMovies(list, sortKey) ==
    /\ svcOp = "idle"
    /\ svcOp' = "sortMovies"
    /\ svcSort' = sortKey
    /\ svcIn' = list
    /\ svcOut' = sortMovies(list, sortKey)
    /\ svcAfter' = sortMoviesArgument(list, sortKey)
    /\ UNCHANGED <<svcQuery, svcGenre>>
    /\ UNCHANGED <<catalog, pageVars, urlVars, favVars>>

\* sortMovies on the list a sortMovies call returned, with the same key
CallSortMoviesAgain ==
    /\ svcOp = "sortMovies"
    /\ svcOp' = "sortMoviesAgain"
    /\ svcIn' = svcOut
    /\ svcOut' = sortMovies(svcOut, svcSort)
    /\ svcAfter' = sortMoviesArgument(svcOut, svcSort)
    /\ UNCHANGED <<svcQuery, svcGenre, svcSort>>
    /\ UNCHANGED <<catalog, pageVars, urlVars, favVars>>

CallGetFilteredMovies(search, genre, sort) ==
    /\ svcOp = "idle"
    /\ svcOp' = "getFilteredMovies"
    /\ svcQuery' = search
    /\ svcGenre' = genre
    /\ svcSort' = sort
    /\ svcIn' = catalog
    /\ svcOut' = getFilteredMovies(search, genre, sort)
    /\ svcAfter' = catalog
    /\ UNCHANGED <<catalog, pageVars, urlVars, favVars>>

\* The calls without a list argument: getAllMovies, getGenres, getMovieById
\* and getMovieStats
CallGetAllMovies ==
    /\ svcOp = "idle"
    /\ svcOp' = "getAllMovies"
    /\ svcIn' = catalog
    /\ svcOut' = getAllMovies
    /\ svcAfter' = catalog
    /\ UNCHANGED <<svcQuery, svcGenre, svcSort>>
    /\ UNCHANGED <<catalog, pageVars, urlVars, favVars>>

CallGetGenres ==
    /\ svcOp = "idle"
    /\ svcOp' = "getGenres"
    /\ svcIn' = catalog
    /\ svcOut' = getGenres
    /\ svcAfter' = catalog
    /\ UNCHANGED <<svcQuery, svcGenre, svcSort>>
    /\ UNCHANGED <<catalog, pageVars, urlVars, favVars>>

CallGetMovieById(id) ==
    /\ svcOp = "idle"
    /\ svcOp' = "getMovieById"
    /\ svcIn' = catalog
    /\ svcOut' = getMovieById(id)
    /\ svcAfter' = catalog
    /\ UNCHANGED <<svcQuery, svcGenre, svcSort>>
    /\ UNCHANGED <<catalog, pageVars, urlVars, favVars>>

CallGetMovieStats ==
    /\ svcOp = "idle"
    /\ svcOp' = "getMovieStats"
    /\ svcIn' = catalog
    /\ svcOut' = getMovieStats
    /\ svcAfter' = catalog
    /\ UNCHANGED <<svcQuery, svcGenre, svcSort>>
    /\ UNCHANGED <<catalog, pageVars, urlVars, favVars>>

ServiceInit ==
    /\ catalog \in Catalogs
    /\ SvcInit /\ PageInit /\ UrlInit /\ FavInit

ServiceNext ==
    \/ \E q \in SearchTerms : CallSearchMovies(q)
    \/ \E g \in GenreInputs, l \in InputLists : CallFilterByGenre(g, l)
    \/ \E l \in InputLists, k \in SortInputs : CallSortMovies(l, k)
    \/ CallSortMoviesAgain
    \/ \E q \in SearchTerms, g \in GenreInputs, k \in SortInputs :
           CallGetFilteredMovies(q, g, k)
    \/ CallGetAllMovies
    \/ CallGetGenres
    \/ \E id \in 0..MaxFavId : CallGetMovieById(id)
    \/ CallGetMovieStats

SpecService == ServiceInit /\ [][ServiceNext]_vars

---------------------------------------------------------------------------
(* AllMoviesPage, with the search term App keeps and hands down.           *)

\* A page slice that stops one record early in paged mode.
displayedMoviesShortPage(list, mode, page, count) ==
    IF mode = "infinite"
    THEN slice(list, 0, count)
    ELSE LET startIndex == (page - 1) * moviesPerPage
             endIndex   == startIndex + moviesPerPage - 1
         IN  slice(list, startIndex, endIndex)

\* The body of the displayedMovies memo, as a function of its dependencies
displayedMoviesOf(list, mode, page, count) ==
    IF mode = "infinite"
    THEN slice(list, 0, count)
    ELSE LET startIndex == (page - 1) * moviesPerPage
             endIndex   == startIndex + moviesPerPage
         IN  slice(list, startIndex, endIndex)

displayedMovies ==
    displayedMoviesOf(filteredMovies, paginationMode, currentPage, displayCount)

totalPages == MathCeilDiv(Len(filteredMovies), moviesPerPage)

availableGenres == getGenres

\* The terms typed into the header's search box
PageSearchTerms ==
    { <<>>, <<"m","o","v","i","e">>, <<"t","h","e">>, <<"z","z","z">> }

\* The data sources the page is run on
PageCatalogs == {fallbackMovies, moviesData}

\* movieService.getFilteredMovies on each input the page can hand it,
\* computed once: the service is a pure function of its list and arguments.
getFilteredMoviesMemo ==
    [c \in PageCatalogs |-> [q \in PageSearchTerms |-> [g \in GenreInputs |->
        [k \in SortInputs |-> getFilteredMoviesOf(c, q, g, k)]]]]

\* A filter effect that leaves the page where it was in paged mode
FilterEffectKeepsPage(search, genre, sort, mode, page, count, more) ==
    LET filtered == getFilteredMoviesMemo[catalog][search][genre][sort]
    IN  /\ filteredMovies' = filtered
        /\ IF mode = "infinite"
           THEN /\ displayCount' = 12
                /\ hasMoreMovies' = (Len(filtered) > 12)
                /\ currentPage' = page
           ELSE /\ currentPage' = page
                /\ displayCount' = count
                /\ hasMoreMovies' = more

\* The filter effect (deps: searchQuery, selectedGenre, sortBy, paginationMode),
\* run with the values of the render that scheduled it.  page and count are
\* the values the handler left behind.
FilterEffect(search, genre, sort, mode, page, count, more) ==
    LET filtered == getFilteredMoviesMemo[catalog][search][genre][sort]
    IN  /\ filteredMovies' = filtered
        /\ IF mode = "infinite"
           THEN /\ displayCount' = 12
                /\ hasMoreMovies' = (Len(filtered) > 12)
                /\ currentPage' = page
           ELSE /\ currentPage' = 1
                /\ displayCount' = count
                /\ hasMoreMovies' = more

\* What a render leaves when no dependency of the filter effect changed
NoEffect(page, count, more) ==
    /\ filteredMovies' = filteredMovies
    /\ currentPage' = page
    /\ displayCount' = count
    /\ hasMoreMovies' = more

\* First render: the mount effects run, loadMovies starts its 100 ms wait.
Mount ==
    /\ ~mounted
    /\ mounted' = TRUE
    /\ FilterEffect(searchQuery, selectedGenre, sortBy, paginationMode,
                    currentPage, displayCount, hasMoreMovies)
    /\ UNCHANGED <<searchQuery, movies, loading, selectedGenre, sortBy, viewMode,
                   paginationMode>>
    /\ UNCHANGED <<catalog, svcVars, urlVars, favVars>>

loadMovies ==
    /\ mounted /\ loading
    /\ movies' = getAllMovies
    /\ loading' = FALSE
    /\ UNCHANGED <<searchQuery, filteredMovies, mounted, selectedGenre, sortBy, viewMode,
                   displayCount, hasMoreMovies, paginationMode, currentPage>>
    /\ UNCHANGED <<catalog, svcVars, urlVars, favVars>>

\* App.handleSearchChange: the header's search box is shown on every render.
handleSearchChange(query) ==
    /\ mounted
    /\ searchQuery' = query
    /\ IF query # searchQuery
       THEN FilterEffect(query, selectedGenre, sortBy, paginationMode,
                         currentPage, displayCount, hasMoreMovies)
       ELSE NoEffect(currentPage, displayCount, hasMoreMovies)
    /\ UNCHANGED <<movies, loading, mounted, selectedGenre, sortBy, viewMode, paginationMode>>
    /\ UNCHANGED <<catalog, svcVars, urlVars, favVars>>

handleGenreChange(genre) ==
    /\ mounted /\ ~loading
    /\ selectedGenre' = genre
    /\ IF genre # selectedGenre
       THEN FilterEffect(searchQuery, genre, sortBy, paginationMode,
                         currentPage, displayCount, hasMoreMovies)
       ELSE NoEffect(currentPage, displayCount, hasMoreMovies)
    /\ UNCHANGED <<searchQuery, movies, loading, mounted, sortBy, viewMode, paginationMode>>
    /\ UNCHANGED <<catalog, svcVars, urlVars, favVars>>

\* A sort change the filter effect does not depend on
handleSortChangeNoEffect(sort) ==
    /\ mounted /\ ~loading
    /\ sortBy' = sort
    /\ NoEffect(currentPage, displayCount, hasMoreMovies)
    /\ UNCHANGED <<searchQuery, movies, loading, mounted, selectedGenre, viewMode,
                   paginationMode>>
    /\ UNCHANGED <<catalog, svcVars, urlVars, favVars>>

handleSortChange(sort) ==
    /\ mounted /\ ~loading
    /\ sortBy' = sort
    /\ IF sort # sortBy
       THEN FilterEffect(searchQuery, selectedGenre, sort, paginationMode,
                         currentPage, displayCount, hasMoreMovies)
       ELSE NoEffect(currentPage, displayCount, hasMoreMovies)
    /\ UNCHANGED <<searchQuery, movies, loading, mounted, selectedGenre, viewMode,
                   paginationMode>>
    /\ UNCHANGED <<catalog, svcVars, urlVars, favVars>>

handleViewModeChange(mode) ==
    /\ mounted /\ ~loading
    /\ viewMode' = mode
    /\ UNCHANGED <<searchQuery, movies, filteredMovies, loading, mounted, selectedGenre,
                   sortBy, displayCount, hasMoreMovies, paginationMode, currentPage>>
    /\ UNCHANGED <<catalog, svcVars, urlVars, favVars>>

\* A load-more that stops at the number of matches
handleLoadMoreCapped ==
    /\ mounted /\ ~loading
    /\ filteredMovies # <<>> /\ displayedMovies # <<>>
    /\ hasMoreMovies
    /\ LET newDisplayCount == IF displayCount + 12 > Len(filteredMovies)
                              THEN Len(filteredMovies) ELSE displayCount + 12
       IN  /\ displayCount' = newDisplayCount
           /\ hasMoreMovies' = (Len(filteredMovies) > newDisplayCount)
    /\ UNCHANGED <<searchQuery, movies, filteredMovies, loading, mounted, selectedGenre,
                   sortBy, viewMode, paginationMode, currentPage>>
    /\ UNCHANGED <<catalog, svcVars, urlVars, favVars>>

\* A load-more that tests hasMore against the count before the increment
handleLoadMoreStaleCount ==
    /\ mounted /\ ~loading
    /\ filteredMovies # <<>> /\ displayedMovies # <<>>
    /\ hasMoreMovies
    /\ LET newDisplayCount == displayCount + 12
       IN  /\ displayCount' = newDisplayCount
           /\ hasMoreMovies' = (Len(filteredMovies) > displayCount)
    /\ UNCHANGED <<searchQuery, movies, filteredMovies, loading, mounted, selectedGenre,
                   sortBy, viewMode, paginationMode, currentPage>>
    /\ UNCHANGED <<catalog, svcVars, urlVars, favVars>>

\* MovieGrid calls onLoadMore when its sentinel, rendered while hasMore holds
\* and the grid shows at least one movie, becomes visible.
handleLoadMore ==
    /\ mounted /\ ~loading
    /\ filteredMovies # <<>> /\ displayedMovies # <<>>
    /\ hasMoreMovies
    /\ LET newDisplayCount == displayCount + 12
       IN  /\ displayCount' = newDisplayCount
           /\ hasMoreMovies' = (Len(filteredMovies) > newDisplayCount)
    /\ UNCHANGED <<searchQuery, movies, filteredMovies, loading, mounted, selectedGenre,
                   sortBy, viewMode, paginationMode, currentPage>>
    /\ UNCHANGED <<catalog, svcVars, urlVars, favVars>>

handleClearFilters ==
    /\ mounted /\ ~loading
    /\ selectedGenre' = All
    /\ sortBy' = "rating-desc"
    /\ IF selectedGenre # All \/ sortBy # "rating-desc"
       THEN FilterEffect(searchQuery, All, "rating-desc", paginationMode,
                         1, displayCount, hasMoreMovies)
       ELSE NoEffect(1, displayCount, hasMoreMovies)
    /\ UNCHANGED <<searchQuery, movies, loading, mounted, viewMode, paginationMode>>
    /\ UNCHANGED <<catalog, svcVars, urlVars, favVars>>

\* A mode change that leaves the resets to the filter effect
handlePaginationModeChangeEffectOnly(mode) ==
    /\ mounted /\ ~loading
    /\ paginationMode' = mode
    /\ IF mode # paginationMode
       THEN FilterEffect(searchQuery, selectedGenre, sortBy, mode,
                         currentPage, displayCount, hasMoreMovies)
       ELSE NoEffect(currentPage, displayCount, hasMoreMovies)
    /\ UNCHANGED <<searchQuery, movies, loading, mounted, selectedGenre, sortBy, viewMode>>
    /\ UNCHANGED <<catalog, svcVars, urlVars, favVars>>

handlePaginationModeChange(mode) ==
    /\ mounted /\ ~loading
    /\ paginationMode' = mode
    /\ LET page  == IF mode = "infinite" THEN currentPage ELSE 1
           count == IF mode = "infinite" THEN 12 ELSE displayCount
           more  == IF mode = "infinite" THEN Len(filteredMovies) > 12 ELSE hasMoreMovies
       IN  IF mode # paginationMode
           THEN FilterEffect(searchQuery, selectedGenre, sortBy, mode, page, count, more)
           ELSE NoEffect(page, count, more)
    /\ UNCHANGED <<searchQuery, movies, loading, mounted, selectedGenre, sortBy, viewMode>>
    /\ UNCHANGED <<catalog, svcVars, urlVars, favVars>>

handlePageChange(page) ==
    /\ mounted /\ ~loading
    /\ currentPage' = page
    /\ UNCHANGED <<searchQuery, movies, filteredMovies, loading, mounted, selectedGenre,
                   sortBy, viewMode, displayCount, hasMoreMovies, paginationMode>>
    /\ UNCHANGED <<catalog, svcVars, urlVars, favVars>>

\* The options of the genre select: 'all' and the catalog's genres
GenreOptions == {All} \cup SetOf(availableGenres)

\* Pagination is rendered in paged mode when the matches exceed one page
PaginationRendered ==
    paginationMode = "pages" /\ Len(filteredMovies) > moviesPerPage

maxVisiblePages == 7

\* Pagination.getVisiblePages
getVisiblePages ==
    LET Max(a, b) == IF a > b THEN a ELSE b
        Min(a, b) == IF a < b THEN a ELSE b
        delta  == maxVisiblePages \div 2
        start0 == Max(1, currentPage - delta)
        end0   == Min(totalPages, currentPage + delta)
        short  == end0 - start0 + 1 < maxVisiblePages
        end    == IF short /\ start0 = 1
                  THEN Min(totalPages, start0 + maxVisiblePages - 1) ELSE end0
        start  == IF short /\ start0 # 1
                  THEN Max(1, end0 - maxVisiblePages + 1) ELSE start0
    IN  start..end

\* The pages the enabled buttons of Pagination hand to onPageChange
PaginationButtons ==
    IF ~PaginationRendered \/ totalPages <= 1 THEN {}
    ELSE LET visiblePages == getVisiblePages
             lowest  == CHOOSE p \in visiblePages : \A r \in visiblePages : p <= r
             highest == CHOOSE p \in visiblePages : \A r \in visiblePages : p >= r
         IN  (IF currentPage > 2 THEN {1} ELSE {})
             \cup (IF currentPage # 1 THEN {currentPage - 1} ELSE {})
             \cup (IF lowest > 2 THEN {1} ELSE {})
             \cup visiblePages
             \cup (IF highest < totalPages - 1 THEN {totalPages} ELSE {})
             \cup (IF currentPage # totalPages THEN {currentPage + 1} ELSE {})
             \cup (IF currentPage < totalPages - 1 THEN {totalPages} ELSE {})

\* The integers handlePageChange is called with directly
PageRequests == (-1)..MaxPageRequest

Init ==
    /\ catalog \in PageCatalogs
    /\ PageInit /\ SvcInit /\ UrlInit /\ FavInit

\* The page as the user drives it: page changes come from Pagination's buttons
Next ==
    \/ Mount /\ lastAction' = "Mount"
    \/ loadMovies /\ lastAction' = "loadMovies"
    \/ \E q \in PageSearchTerms :
           handleSearchChange(q) /\ lastAction' = "handleSearchChange"
    \/ \E g \in GenreOptions :
           handleGenreChange(g) /\ lastAction' = "handleGenreChange"
    \/ \E k \in SortKeys :
           handleSortChange(k) /\ lastAction' = "handleSortChange"
    \/ \E m \in {"grid", "list"} :
           handleViewModeChange(m) /\ lastAction' = "handleViewModeChange"
    \/ handleLoadMore /\ lastAction' = "handleLoadMore"
    \/ handleClearFilters /\ lastAction' = "handleClearFilters"
    \/ \E m \in {"infinite", "pages"} :
           handlePaginationModeChange(m) /\ lastAction' = "handlePaginationModeChange"
    \/ \E n \in PaginationButtons :
           handlePageChange(n) /\ lastAction' = "handlePageChange"

Spec == Init /\ [][Next]_vars

\* The page with handlePageChange called on any integer
NextHandlers ==
    \/ Mount /\ lastAction' = "Mount"
    \/ loadMovies /\ lastAction' = "loadMovies"
    \/ \E q \in PageSearchTerms :
           handleSearchChange(q) /\ lastAction' = "handleSearchChange"
    \/ \E g \in GenreOptions :
           handleGenreChange(g) /\ lastAction' = "handleGenreChange"
    \/ \E k \in SortKeys :
           handleSortChange(k) /\ lastAction' = "handleSortChange"
    \/ \E m \in {"grid", "list"} :
           handleViewModeChange(m) /\ lastAction' = "handleViewModeChange"
    \/ handleLoadMore /\ lastAction' = "handleLoadMore"
    \/ handleClearFilters /\ lastAction' = "handleClearFilters"
    \/ \E m \in {"infinite", "pages"} :
           handlePaginationModeChange(m) /\ lastAction' = "handlePaginationModeChange"
    \/ \E n \in PageRequests :
           handlePageChange(n) /\ lastAction' = "handlePageChange"

SpecHandlers == Init /\ [][NextHandlers]_vars

---------------------------------------------------------------------------
(* URL codec: generateShareableURL and parseURLParameters, with the        *)
(* URLSearchParams object between them.                                    *)

\* Percent codes (UTF-8, upper-case hex) of the escaped characters of the
\* model's alphabet
PercentCodes ==
       (" " :> <<"2","0">>) @@ ("\t" :> <<"0","9">>) @@ ("%" :> <<"2","5">>)
    @@ ("&" :> <<"2","6">>) @@ ("+" :> <<"2","B">>) @@ (":" :> <<"3","A">>)
    @@ ("=" :> <<"3","D">>)

AlphaNumeric == SetOf(UpperChars) \cup SetOf(LowerChars) \cup SetOf(Digits)
HexDigits == SetOf(Digits) \cup {"A","B","C","D","E","F","a","b","c","d","e","f"}

\* The character of a percent code; a code outside the table stands for a
\* character outside the model's alphabet
CharOfCode(h1, h2) ==
    LET code == <<UpperChar(h1), UpperChar(h2)>>
    IN  IF \E c \in DOMAIN PercentCodes : PercentCodes[c] = code
        THEN CHOOSE c \in DOMAIN PercentCodes : PercentCodes[c] = code
        ELSE "?"

RECURSIVE percentEncode(_, _)
percentEncode(s, safe) ==
    IF s = <<>> THEN <<>>
    ELSE (IF Head(s) \in safe THEN <<Head(s)>> ELSE <<"%">> \o PercentCodes[Head(s)])
         \o percentEncode(Tail(s), safe)

\* encodeURIComponent: everything but A-Z a-z 0-9 - _ . ! ~ * ' ( ) is escaped
encodeURIComponent(s) ==
    percentEncode(s, AlphaNumeric \cup {"-", "_", ".", "!", "~", "*", "'", "(", ")"})

\* decodeURIComponent: a % that is not followed by two hex digits throws
RECURSIVE decodeURIComponentFrom(_)
decodeURIComponentFrom(s) ==
    IF s = <<>> THEN [ok |-> TRUE, value |-> <<>>]
    ELSE IF Head(s) # "%"
    THEN LET rest == decodeURIComponentFrom(Tail(s))
         IN  [ok |-> rest.ok, value |-> <<Head(s)>> \o rest.value]
    ELSE IF Len(s) >= 3 /\ s[2] \in HexDigits /\ s[3] \in HexDigits
    THEN LET rest == decodeURIComponentFrom(SubSeq(s, 4, Len(s)))
         IN  [ok |-> rest.ok, value |-> <<CharOfCode(s[2], s[3])>> \o rest.value]
    ELSE [ok |-> FALSE, value |-> <<>>]

decodeURIComponent(s) == decodeURIComponentFrom(s)

\* URLSearchParams.toString writes each name and value in the form-urlencoded
\* way: A-Z a-z 0-9 * - . _ stay, the space becomes +, the rest is escaped
RECURSIVE formEncode(_)
formEncode(s) ==
    IF s = <<>> THEN <<>>
    ELSE (IF Head(s) = " " THEN <<"+">>
          ELSE IF Head(s) \in AlphaNumeric \cup {"*", "-", ".", "_"} THEN <<Head(s)>>
          ELSE <<"%">> \o PercentCodes[Head(s)])
         \o formEncode(Tail(s))

\* new URLSearchParams(string) reads them back: + is a space, a well-formed
\* percent code is its character, anything else is kept as written
RECURSIVE formDecode(_)
formDecode(s) ==
    IF s = <<>> THEN <<>>
    ELSE IF Head(s) = "+" THEN <<" ">> \o formDecode(Tail(s))
    ELSE IF Head(s) = "%" /\ Len(s) >= 3 /\ s[2] \in HexDigits /\ s[3] \in HexDigits
    THEN <<CharOfCode(s[2], s[3])>> \o formDecode(SubSeq(s, 4, Len(s)))
    ELSE <<Head(s)>> \o formDecode(Tail(s))

\* A URLSearchParams object is the list of its <<name, value>> pairs.
\* set(name, value) on a name that is not in the list appends the pair.
urlParamsSet(list, name, value) ==
    IF \E i \in 1..Len(list) : list[i][1] = name
    THEN [i \in 1..Len(list) |->
             IF list[i][1] = name THEN <<name, value>> ELSE list[i]]
    ELSE Append(list, <<name, value>>)

\* get(name): the first value of the name, <<>> standing for null (every
\* reader below treats null and the empty string alike)
urlParamsGet(list, name) ==
    IF \E i \in 1..Len(list) : list[i][1] = name
    THEN list[CHOOSE i \in 1..Len(list) :
                 list[i][1] = name /\ \A j \in 1..(i-1) : list[j][1] # name][2]
    ELSE <<>>

RECURSIVE urlParamsToString(_)
urlParamsToString(list) ==
    IF list = <<>> THEN <<>>
    ELSE formEncode(list[1][1]) \o <<"=">> \o formEncode(list[1][2])
         \o (IF Len(list) > 1 THEN <<"&">> \o urlParamsToString(Tail(list)) ELSE <<>>)

\* The pair of one name=value piece of a query string
urlParamsPair(piece) ==
    LET eq == IndexOf(piece, "=")
    IN  IF eq = 0 THEN <<formDecode(piece), <<>>>>
        ELSE <<formDecode(SubSeq(piece, 1, eq - 1)),
               formDecode(SubSeq(piece, eq + 1, Len(piece)))>>

RECURSIVE urlParamsPairs(_)
urlParamsPairs(pieces) ==
    IF pieces = <<>> THEN <<>>
    ELSE (IF Head(pieces) = <<>> THEN <<>> ELSE <<urlParamsPair(Head(pieces))>>)
         \o urlParamsPairs(Tail(pieces))

\* new URLSearchParams(queryString)
urlParamsParse(query) == urlParamsPairs(split(query, "&"))

\* Number.prototype.toString is toString above.  parseInt(string, 10): leading
\* white space is skipped, then the digits up to the first other character
\* are read; <<>> stands for NaN.
RECURSIVE digitsValue(_, _)
digitsValue(s, acc) ==
    IF s = <<>> \/ IndexOf(Digits, Head(s)) = 0 THEN acc
    ELSE digitsValue(Tail(s), 10 * acc + IndexOf(Digits, Head(s)) - 1)

parseInt(s) ==
    LET t    == trimStart(s)
        neg  == t # <<>> /\ Head(t) = "-"
        body == IF t # <<>> /\ Head(t) \in {"-", "+"} THEN Tail(t) ELSE t
    IN  IF body = <<>> \/ IndexOf(Digits, Head(body)) = 0 THEN <<>>
        ELSE <<(IF neg THEN -1 ELSE 1) * digitsValue(body, 0)>>

\* Parameter names
ParamQ          == <<"q">>
ParamGenre      == <<"g","e","n","r","e">>
ParamSort       == <<"s","o","r","t">>
ParamView       == <<"v","i","e","w">>
ParamPagination == <<"p","a","g","i","n","a","t","i","o","n">>
ParamPage       == <<"p","a","g","e">>

\* A generateShareableURL that writes the page in either pagination mode
generateShareableURLPageAnyMode(params) ==
    LET p1 == IF params.search # <<>> /\ trim(params.search) # <<>>
              THEN urlParamsSet(<<>>, ParamQ, encodeURIComponent(trim(params.search)))
              ELSE <<>>
        p2 == IF params.genre # <<>> /\ params.genre # All
              THEN urlParamsSet(p1, ParamGenre, toLowerCase(params.genre)) ELSE p1
        p3 == IF params.sort # <<>> /\ params.sort # StringChars["rating-desc"]
              THEN urlParamsSet(p2, ParamSort, params.sort) ELSE p2
        p4 == IF params.view # <<>> /\ params.view # StringChars["grid"]
              THEN urlParamsSet(p3, ParamView, params.view) ELSE p3
        p5 == IF params.pagination # <<>> /\ params.pagination # StringChars["infinite"]
              THEN urlParamsSet(p4, ParamPagination, params.pagination) ELSE p4
        p6 == IF params.page # 0 /\ params.page > 1
              THEN urlParamsSet(p5, ParamPage, toString(params.page)) ELSE p5
    IN  urlParamsToString(p6)

\* generateShareableURL: the query string of the URL it returns (the part
\* after baseURL and '?'; empty when the URL is baseURL alone)
generateShareableURL(params) ==
    LET p1 == IF params.search # <<>> /\ trim(params.search) # <<>>
              THEN urlParamsSet(<<>>, ParamQ, encodeURIComponent(trim(params.search)))
              ELSE <<>>
        p2 == IF params.genre # <<>> /\ params.genre # All
              THEN urlParamsSet(p1, ParamGenre, toLowerCase(params.genre)) ELSE p1
        p3 == IF params.sort # <<>> /\ params.sort # StringChars["rating-desc"]
              THEN urlParamsSet(p2, ParamSort, params.sort) ELSE p2
        p4 == IF params.view # <<>> /\ params.view # StringChars["grid"]
              THEN urlParamsSet(p3, ParamView, params.view) ELSE p3
        p5 == IF params.pagination # <<>> /\ params.pagination # StringChars["infinite"]
              THEN urlParamsSet(p4, ParamPagination, params.pagination) ELSE p4
        p6 == IF params.page # 0 /\ params.page > 1
                 /\ params.pagination = StringChars["pages"]
              THEN urlParamsSet(p5, ParamPage, toString(params.page)) ELSE p5
    IN  urlParamsToString(p6)

validSorts ==
    <<StringChars["rating-desc"], StringChars["rating"], StringChars["year"],
      StringChars["title"]>>

\* parseURLParameters(searchParams, availableGenres)
parseURLParameters(searchParams, genres) ==
    LET q          == urlParamsGet(searchParams, ParamQ)
        genre      == urlParamsGet(searchParams, ParamGenre)
        sort       == urlParamsGet(searchParams, ParamSort)
        view       == urlParamsGet(searchParams, ParamView)
        pagination == urlParamsGet(searchParams, ParamPagination)
        page       == urlParamsGet(searchParams, ParamPage)
        decoded    == decodeURIComponent(q)
        normalizedGenre ==
            toUpperCase(slice(genre, 0, 1)) \o toLowerCase(slice(genre, 1, Len(genre)))
        pageNum    == parseInt(page)
    IN  [search |-> IF q # <<>>
                    THEN <<IF decoded.ok THEN decoded.value ELSE q>> ELSE <<>>,
         genre  |-> IF genre # <<>>
                    THEN <<IF arrayIncludes(genres, normalizedGenre)
                           THEN normalizedGenre ELSE All>>
                    ELSE <<>>,
         sort   |-> IF sort # <<>> /\ arrayIncludes(validSorts, sort)
                    THEN <<sort>> ELSE <<>>,
         view   |-> IF view = StringChars["list"] \/ view = StringChars["grid"]
                    THEN <<view>> ELSE <<>>,
         pagination |-> IF pagination = StringChars["pages"]
                           \/ pagination = StringChars["infinite"]
                        THEN <<pagination>> ELSE <<>>,
         page   |-> IF page # <<>> /\ pageNum # <<>> /\ pageNum[1] > 0
                    THEN pageNum ELSE <<>>]

\* The search terms a shared page carries
SharedSearchTerms ==
    { <<>>, <<" ">>,
      <<"d","a","r","k"," ","k","n","i","g","h","t">>,
      <<"J","o","k","e","r"," ">>,
      <<"1","0","0","%">>,
      <<"a","&","b","=","c","+","d">> }

\* The browse states the controls of a page lead to
SharedQueries ==
    [search : SharedSearchTerms,
     genre : GenreOptions,
     sort : {StringChars[k] : k \in SortKeys},
     view : {StringChars["grid"], StringChars["list"]},
     pagination : {StringChars["infinite"], StringChars["pages"]},
     page : 1..MaxSharedPage]

\* ShareURL is rendered open with the page's browse state: currentURL
ShareCurrentURL(params) ==
    /\ urlOp = "idle"
    /\ urlOp' = "shared"
    /\ urlModel' = params
    /\ urlParams' = generateShareableURL(params)
    /\ UNCHANGED <<urlParsed, explorer, debounce, sync>>
    /\ UNCHANGED <<catalog, pageVars, svcVars, favVars>>

\* The shared URL is opened: its query string is read into a URLSearchParams
\* object and parsed against the catalog's genres
OpenSharedURL ==
    /\ urlOp = "shared"
    /\ urlOp' = "parsed"
    /\ urlParsed' = parseURLParameters(urlParamsParse(urlParams), getGenres)
    /\ UNCHANGED <<urlModel, urlParams, explorer, debounce, sync>>
    /\ UNCHANGED <<catalog, pageVars, svcVars, favVars>>

\* Values typed into the address bar for each parameter, as written in the
\* URL (<<>>: the parameter is left out), with what the documented format
\* makes of them (expect; <<>> for a value that is to be dropped)
TypedQ ==
    { [typed |-> <<>>, expect |-> <<>>],
      [typed |-> <<"1","0","0","%","2","5">>, expect |-> <<<<"1","0","0","%">>>>] }

TypedGenre ==
    { [typed |-> <<>>, expect |-> <<>>],
      [typed |-> <<"a","c","t","i","o","n">>, expect |-> <<Action>>],
      [typed |-> <<"s","c","i","-","f","i">>, expect |-> <<SciFi>>],
      [typed |-> <<"c","o","m","e","d","y">>, expect |-> <<All>>] }

TypedSort ==
    { [typed |-> <<>>, expect |-> <<>>],
      [typed |-> StringChars["year"], expect |-> <<StringChars["year"]>>],
      [typed |-> <<"b","o","g","u","s">>, expect |-> <<>>] }

TypedView ==
    { [typed |-> StringChars["list"], expect |-> <<StringChars["list"]>>],
      [typed |-> <<"t","a","b","l","e">>, expect |-> <<>>] }

TypedPagination ==
    { [typed |-> StringChars["pages"], expect |-> <<StringChars["pages"]>>],
      [typed |-> <<"p","a","g","e","d">>, expect |-> <<>>] }

TypedPage ==
    { [typed |-> <<>>, expect |-> <<>>],
      [typed |-> <<"2">>, expect |-> <<2>>],
      [typed |-> <<"0">>, expect |-> <<>>],
      [typed |-> <<"a","b","c">>, expect |-> <<>>],
      [typed |-> <<"2","a","b","c">>, expect |-> <<>>] }

TypedURLs ==
    [q : TypedQ, genre : TypedGenre, sort : TypedSort, view : TypedView,
     pagination : TypedPagination, page : TypedPage]

\* name=value pieces joined by &
RECURSIVE joinPieces(_)
joinPieces(pieces) ==
    IF pieces = <<>> THEN <<>>
    ELSE Head(pieces)
         \o (IF Len(pieces) > 1 THEN <<"&">> \o joinPieces(Tail(pieces)) ELSE <<>>)

\* The query string of a typed URL
TypedQuery(url) ==
    LET piece(name, v) == IF v.typed = <<>> THEN <<>> ELSE <<name \o <<"=">> \o v.typed>>
    IN  joinPieces(piece(ParamQ, url.q) \o piece(ParamGenre, url.genre)
                   \o piece(ParamSort, url.sort) \o piece(ParamView, url.view)
                   \o piece(ParamPagination, url.pagination)
                   \o piece(ParamPage, url.page))

\* A URL is typed into the address bar and its query string is parsed
OpenTypedURL(url) ==
    /\ urlOp = "idle"
    /\ urlOp' = "typed"
    /\ urlParams' = TypedQuery(url)
    /\ urlParsed' = parseURLParameters(urlParamsParse(urlParams'), getGenres)
    /\ UNCHANGED <<urlModel, explorer, debounce, sync>>
    /\ UNCHANGED <<catalog, pageVars, svcVars, favVars>>

\* ShareURL.onClose
CloseShare ==
    /\ urlOp # "idle"
    /\ urlOp' = "idle"
    /\ urlModel' = DefaultQuery
    /\ urlParams' = <<>>
    /\ urlParsed' = EmptyParams
    /\ UNCHANGED <<explorer, debounce, sync>>
    /\ UNCHANGED <<catalog, pageVars, svcVars, favVars>>

URLInit ==
    /\ catalog \in PageCatalogs
    /\ PageInit /\ SvcInit /\ UrlInit /\ FavInit

URLNext ==
    \/ \E params \in SharedQueries : ShareCurrentURL(params)
    \/ OpenSharedURL
    \/ \E url \in TypedURLs : OpenTypedURL(url)
    \/ CloseShare

SpecURL == URLInit /\ [][URLNext]_vars

---------------------------------------------------------------------------
(* MovieExplorer: its state is initialised from the URL's query string by  *)
(* useURLParams and written back to it; urlParams is                       *)
(* window.location.search without the question mark.                       *)

\* useURLParams: params[key] of the object built from searchParams.entries(),
\* the value of the last pair of that name (<<>>: undefined)
paramsOf(list, name) ==
    LET at == {i \in 1..Len(list) : list[i][1] = name}
    IN  IF at = {} THEN <<>> ELSE list[CHOOSE i \in at : \A j \in at : j <= i][2]

\* useURLParams.updateParam: the new URLSearchParams
updateParam(list, key, value) ==
    IF value = <<>> THEN SelectSeq(list, LAMBDA pair : pair[1] # key)
    ELSE urlParamsSet(list, key, value)

\* The four effects that write q, genre, sort and view to the URL: the
\* URLSearchParams after them
syncURL(list, state) ==
    LET p1 == updateParam(list, ParamQ, state.searchQuery)
        p2 == updateParam(p1, ParamGenre,
                  IF state.selectedGenre = All THEN <<>> ELSE state.selectedGenre)
        p3 == updateParam(p2, ParamSort,
                  IF state.sortBy = StringChars["rating-desc"] THEN <<>> ELSE state.sortBy)
        p4 == updateParam(p3, ParamView,
                  IF state.viewMode = StringChars["grid"] THEN <<>> ELSE state.viewMode)
    IN  p4

\* The URLs the explorer is opened with
ExplorerURLs ==
    {url \in TypedURLs : /\ url.view.typed = StringChars["list"]
                         /\ url.pagination.typed = StringChars["pages"]
                         /\ url.page.typed \in {<<>>, <<"2">>}}

\* The mount effect's initializeFromURL and the renders it leads to: the
\* first render's sync effects delete the four keys (the state still has its
\* initial values), the next render's write the state read from the URL
ExplorerMount ==
    /\ ~explorer.mounted
    /\ LET searchParams == urlParamsParse(urlParams)
           params(name) == paramsOf(searchParams, name)
           state == [mounted |-> TRUE,
                     searchQuery |-> IF params(ParamQ) # <<>> THEN params(ParamQ)
                                     ELSE explorer.searchQuery,
                     selectedGenre |-> IF params(ParamGenre) # <<>> THEN params(ParamGenre)
                                       ELSE explorer.selectedGenre,
                     sortBy |-> IF params(ParamSort) # <<>> THEN params(ParamSort)
                                ELSE explorer.sortBy,
                     viewMode |-> IF params(ParamView) # <<>> THEN params(ParamView)
                                  ELSE explorer.viewMode,
                     keydown |-> <<>>]
       IN  /\ explorer' = state
           /\ urlParams' = urlParamsToString(
                  syncURL(syncURL(searchParams, ExplorerDefaults), state))
    /\ UNCHANGED <<urlOp, urlModel, urlParsed, debounce, sync>>
    /\ UNCHANGED <<catalog, pageVars, svcVars, favVars>>

\* MovieExplorer.handleGenreChange, from the genre select; the URL follows by the sync effects
ExplorerHandleGenreChange(genre) ==
    /\ explorer.mounted
    /\ explorer' = [explorer EXCEPT !.selectedGenre = genre, !.keydown = <<>>]
    /\ urlParams' = urlParamsToString(syncURL(urlParamsParse(urlParams), explorer'))
    /\ UNCHANGED <<urlOp, urlModel, urlParsed, debounce, sync>>
    /\ UNCHANGED <<catalog, pageVars, svcVars, favVars>>

\* MovieExplorer.handleSortChange, from the sort select; the URL follows by the sync effects
ExplorerHandleSortChange(sort) ==
    /\ explorer.mounted
    /\ explorer' = [explorer EXCEPT !.sortBy = StringChars[sort], !.keydown = <<>>]
    /\ urlParams' = urlParamsToString(syncURL(urlParamsParse(urlParams), explorer'))
    /\ UNCHANGED <<urlOp, urlModel, urlParsed, debounce, sync>>
    /\ UNCHANGED <<catalog, pageVars, svcVars, favVars>>

\* MovieExplorer.handleClearFilters; the URL follows by the sync effects
ExplorerHandleClearFilters ==
    /\ explorer.mounted
    /\ explorer' = [explorer EXCEPT !.searchQuery = <<>>, !.selectedGenre = All,
                                     !.sortBy = StringChars["rating-desc"],
                                     !.keydown = <<>>]
    /\ urlParams' = urlParamsToString(syncURL(urlParamsParse(urlParams), explorer'))
    /\ UNCHANGED <<urlOp, urlModel, urlParsed, debounce, sync>>
    /\ UNCHANGED <<catalog, pageVars, svcVars, favVars>>

\* The keys of the object MovieExplorer hands to useKeyboardShortcuts, and
\* what each handler does
shortcuts ==
       (<<"/">> :> "focusSearch")
    @@ (<<"e","s","c","a","p","e">> :> "closeModal")
    @@ (<<"c","t","r","l","+","k">> :> "handleClearFilters")

\* The keys of the keydown events of the model
Keys == { <<"k">>, <<"K">>, <<"/">>, <<"E","s","c","a","p","e">> }

\* useKeyboardShortcuts.handleKeyDown: the combination string of the event
combination(key, ctrlKey, metaKey, shiftKey) ==
    (IF ctrlKey \/ metaKey THEN <<"C","t","r","l","+">> ELSE <<>>)
        \o (IF shiftKey THEN <<"S","h","i","f","t","+">> ELSE <<>>)
        \o toLowerCase(key)

\* useKeyboardShortcuts.handleKeyDown: shortcuts[combination] ||
\* shortcuts[key.toLowerCase()], "none" when both are undefined
shortcutHandler(key, ctrlKey, metaKey, shiftKey) ==
    LET c == combination(key, ctrlKey, metaKey, shiftKey)
    IN  IF c \in DOMAIN shortcuts THEN shortcuts[c]
        ELSE IF toLowerCase(key) \in DOMAIN shortcuts THEN shortcuts[toLowerCase(key)]
        ELSE "none"

\* A keydown event on the window while MovieExplorer is mounted; the URL
\* follows a state change by the sync effects
ExplorerKeyDown(key, ctrlKey, metaKey, shiftKey) ==
    /\ explorer.mounted
    /\ LET c == combination(key, ctrlKey, metaKey, shiftKey)
           handler == shortcutHandler(key, ctrlKey, metaKey, shiftKey)
       IN  IF handler = "handleClearFilters"
           THEN /\ explorer' = [explorer EXCEPT !.searchQuery = <<>>, !.selectedGenre = All,
                                                !.sortBy = StringChars["rating-desc"],
                                                !.keydown = c]
                /\ urlParams' = urlParamsToString(
                       syncURL(urlParamsParse(urlParams), explorer'))
           ELSE /\ explorer' = [explorer EXCEPT !.keydown = c]
                /\ urlParams' = urlParams
    /\ UNCHANGED <<urlOp, urlModel, urlParsed, debounce, sync>>
    /\ UNCHANGED <<catalog, pageVars, svcVars, favVars>>

\* The page is loaded again with the URL it shows
ExplorerReload ==
    /\ explorer.mounted
    /\ explorer' = ExplorerDefaults
    /\ UNCHANGED <<urlOp, urlModel, urlParams, urlParsed, debounce, sync>>
    /\ UNCHANGED <<catalog, pageVars, svcVars, favVars>>

ExplorerInit ==
    /\ catalog \in Catalogs
    /\ PageInit /\ SvcInit /\ FavInit
    /\ urlOp = "idle"
    /\ urlModel = DefaultQuery
    /\ urlParsed = EmptyParams
    /\ urlParams \in {TypedQuery(url) : url \in ExplorerURLs}
    /\ explorer = ExplorerDefaults
    /\ debounce = DebounceOf(<<>>)
    /\ sync = SyncOf(<<>>)

ExplorerNext ==
    \/ ExplorerMount
    \/ \E genre \in GenreOptions : ExplorerHandleGenreChange(genre)
    \/ \E sort \in SortKeys : ExplorerHandleSortChange(sort)
    \/ ExplorerHandleClearFilters
    \/ ExplorerReload

SpecExplorer == ExplorerInit /\ [][ExplorerNext]_vars

\* The explorer under the keyboard: it is opened with a URL, the sort select
\* is used and keys are pressed
KeysNext ==
    \/ ExplorerMount
    \/ \E sort \in SortKeys : ExplorerHandleSortChange(sort)
    \/ \E key \in Keys, ctrlKey \in BOOLEAN, metaKey \in BOOLEAN, shiftKey \in BOOLEAN :
           ExplorerKeyDown(key, ctrlKey, metaKey, shiftKey)

SpecKeys == ExplorerInit /\ [][KeysNext]_vars

---------------------------------------------------------------------------
(* useDebounce, as MovieExplorer uses it on its search term, and the        *)
(* functions made by debounce.  Time passes in ticks, DebounceDelay of     *)
(* them to the delay.                                                      *)

\* The values of the debounced input, and the arguments of the calls
DebounceInputs == { <<>>, <<"a">>, <<"a","b">> }

\* clearTimeout(handle): the timer the handle refers to is removed, if it is
\* still pending
clearTimeout(timers) == {t \in timers : ~t.latest}

\* setTimeout(callback, delay), the handle being set to the new timer
setTimeout(timers, v) ==
    {[t EXCEPT !.latest = FALSE] : t \in timers} \cup {Timer(v, DebounceDelay)}

\* An effect of useDebounce that does not clear the timer of the effect
\* before it
useDebounceEffectNoCleanup(timers, v) == setTimeout(timers, v)

\* useDebounce's effect when value changed: the cleanup of the effect before
\* it, then the new timer
useDebounceEffect(timers, v) == setTimeout(clearTimeout(timers), v)

\* The function debounce returns: clearTimeout(timeout), then the new timer
executedFunction(timers, v) == setTimeout(clearTimeout(timers), v)

\* A timer is due
Due(timers) == {t \in timers : t.remaining = 0}

\* The timers one tick later
Elapse(timers) ==
    {[t EXCEPT !.remaining = IF t.remaining > 0 THEN t.remaining - 1 ELSE 0] : t \in timers}

\* The component renders with a new value (a keystroke in the search box):
\* useDebounce's effect runs again
DebounceValueChange(v) ==
    /\ v # debounce.value
    /\ debounce' = [debounce EXCEPT !.value = v, !.sinceInput = 0,
                                     !.handlers = useDebounceEffect(debounce.handlers, v)]
    /\ UNCHANGED <<urlOp, urlModel, urlParams, urlParsed, explorer, sync>>
    /\ UNCHANGED <<catalog, pageVars, svcVars, favVars>>

\* A timer of useDebounce is due: setDebouncedValue(value)
DebounceHandler ==
    /\ \E t \in Due(debounce.handlers) :
           debounce' = [debounce EXCEPT !.debouncedValue = t.value,
                                        !.handlers = debounce.handlers \ {t}]
    /\ UNCHANGED <<urlOp, urlModel, urlParams, urlParsed, explorer, sync>>
    /\ UNCHANGED <<catalog, pageVars, svcVars, favVars>>

\* The debounced function is called with an argument
DebounceCall(v) ==
    /\ debounce' = [debounce EXCEPT !.args = v, !.sinceCall = 0,
                                     !.timeouts = executedFunction(debounce.timeouts, v)]
    /\ UNCHANGED <<urlOp, urlModel, urlParams, urlParsed, explorer, sync>>
    /\ UNCHANGED <<catalog, pageVars, svcVars, favVars>>

\* A timer of the debounced function is due: later runs func(...args)
DebounceLater ==
    /\ \E t \in Due(debounce.timeouts) :
           debounce' = [debounce EXCEPT !.ran = t.value,
                                        !.timeouts = debounce.timeouts \ {t}]
    /\ UNCHANGED <<urlOp, urlModel, urlParams, urlParsed, explorer, sync>>
    /\ UNCHANGED <<catalog, pageVars, svcVars, favVars>>

\* One tick passes; the timers that are due run first
DebounceTick ==
    /\ Due(debounce.handlers) = {} /\ Due(debounce.timeouts) = {}
    /\ debounce' = [debounce EXCEPT
           !.handlers = Elapse(debounce.handlers),
           !.timeouts = Elapse(debounce.timeouts),
           !.sinceInput = IF debounce.sinceInput < DebounceDelay
                          THEN debounce.sinceInput + 1 ELSE DebounceDelay,
           !.sinceCall = IF debounce.sinceCall < DebounceDelay
                         THEN debounce.sinceCall + 1 ELSE DebounceDelay]
    /\ debounce' # debounce
    /\ UNCHANGED <<urlOp, urlModel, urlParams, urlParsed, explorer, sync>>
    /\ UNCHANGED <<catalog, pageVars, svcVars, favVars>>

DebounceInit ==
    /\ catalog = fallbackMovies
    /\ PageInit /\ SvcInit /\ FavInit
    /\ urlOp = "idle"
    /\ urlModel = DefaultQuery
    /\ urlParams = <<>>
    /\ urlParsed = EmptyParams
    /\ explorer = ExplorerDefaults
    /\ \E v \in DebounceInputs : debounce = DebounceOf(v)
    /\ sync = SyncOf(<<>>)

DebounceNext ==
    \/ \E v \in DebounceInputs : DebounceValueChange(v)
    \/ DebounceHandler
    \/ \E v \in DebounceInputs : DebounceCall(v)
    \/ DebounceLater
    \/ DebounceTick

\* Time passes and the browser runs the timers that are due
SpecDebounce ==
    /\ DebounceInit /\ [][DebounceNext]_vars
    /\ WF_vars(DebounceTick) /\ WF_vars(DebounceHandler) /\ WF_vars(DebounceLater)

---------------------------------------------------------------------------
(* MovieExplorer's renders and effects one at a time: the effect that      *)
(* initializes the state from the URL (dependencies [params]) and the four *)
(* effects that write the state to the URL.                                *)

\* The URL parameter of each control's state
ParamOf ==
    [searchQuery |-> ParamQ, selectedGenre |-> ParamGenre,
     sortBy |-> ParamSort, viewMode |-> ParamView]

\* initializeFromURL with the params of a render: the state after its
\* setSearchQuery, setSelectedGenre, setSortBy and setViewMode, each called
\* when the parameter is truthy
initializeFromURL(searchParams, state) ==
    LET params(field) == paramsOf(searchParams, ParamOf[field])
        set(field) == IF params(field) # <<>> THEN params(field) ELSE state[field]
    IN  [searchQuery |-> set("searchQuery"), selectedGenre |-> set("selectedGenre"),
         sortBy |-> set("sortBy"), viewMode |-> set("viewMode")]

\* The effects that write to the URL, those of them in ran, in the order of
\* their definition and with the state of the render they belong to: each is
\* one updateParam, a functional update of searchParams
syncEffects(searchParams, state, ran) ==
    LET value(field) == IF state[field] = SyncDefaults[field] THEN <<>> ELSE state[field]
        run(list, field) == IF field \in ran
                            THEN updateParam(list, ParamOf[field], value(field))
                            ELSE list
    IN  run(run(run(run(searchParams, "searchQuery"), "selectedGenre"), "sortBy"),
            "viewMode")

\* The values the user gives a control
SyncInputs ==
    [searchQuery |-> {<<>>, <<"a">>, <<"a","b">>},
     selectedGenre |-> {All, Action},
     sortBy |-> {StringChars["rating-desc"], StringChars["title"]},
     viewMode |-> {StringChars["grid"], StringChars["list"]}]

\* The URLs the explorer is opened with: each of q, genre, sort and view is
\* absent or present, and page=2 is another component's parameter
SyncURLs ==
    LET opt(name, value) == {<<>>, <<<<name, value>>>>}
    IN  {q \o g \o s \o v \o pg :
            q \in opt(ParamQ, <<"a">>), g \in opt(ParamGenre, Action),
            s \in opt(ParamSort, StringChars["title"]),
            v \in opt(ParamView, StringChars["list"]),
            pg \in opt(ParamPage, <<"2">>)}

\* The effects of the last render run, in the order of their definition and
\* with the state and params that render read.  The initializing effect
\* queues the state it reads from the URL and calls loadMovies, which sets
\* loading and starts its 100 ms timer; the other effects call updateParam.
SyncRunEffects ==
    /\ sync.effects # {}
    /\ LET initialize == "initialize" \in sync.effects
           ran == sync.effects \ {"initialize"}
       IN  sync' = [sync EXCEPT
               !.nextState = IF initialize
                             THEN initializeFromURL(sync.searchParams, sync.nextState)
                             ELSE sync.nextState,
               !.nextLoading = IF initialize THEN TRUE ELSE sync.nextLoading,
               !.loads = IF ~initialize THEN sync.loads
                         ELSE IF sync.loads < MaxLoads THEN sync.loads + 1 ELSE MaxLoads,
               !.nextParams = syncEffects(sync.nextParams, sync.state, ran),
               !.paramsSet = sync.paramsSet \/ ran # {},
               !.effects = {}]
    /\ UNCHANGED <<urlOp, urlModel, urlParams, urlParsed, explorer, debounce>>
    /\ UNCHANGED <<catalog, pageVars, svcVars, favVars>>

\* React renders the component with the queued updates and commits: an effect
\* is to run when one of its dependencies changed, and updateParam always
\* makes a new URLSearchParams, so params changes whenever it was called
SyncRender ==
    /\ sync.effects = {}
    /\ \/ sync.paramsSet
       \/ sync.nextState # sync.state
       \/ sync.nextLoading # sync.loading
    /\ sync' = [sync EXCEPT
           !.state = sync.nextState,
           !.searchParams = sync.nextParams,
           !.loading = sync.nextLoading,
           !.paramsSet = FALSE,
           !.effects = (IF sync.paramsSet THEN {"initialize"} ELSE {})
                       \cup {field \in DOMAIN ParamOf :
                                sync.nextState[field] # sync.state[field]}]
    /\ UNCHANGED <<urlOp, urlModel, urlParams, urlParsed, explorer, debounce>>
    /\ UNCHANGED <<catalog, pageVars, svcVars, favVars>>

\* A timer of loadMovies is due: setMovies, and setLoading(false) in finally
SyncLoadDone ==
    /\ sync.loads > 0
    /\ sync' = [sync EXCEPT !.loads = sync.loads - 1, !.nextLoading = FALSE]
    /\ UNCHANGED <<urlOp, urlModel, urlParams, urlParsed, explorer, debounce>>
    /\ UNCHANGED <<catalog, pageVars, svcVars, favVars>>

\* The user changes a control: the controls are rendered when loading is
\* false, and their handlers call the setter with the new value.  The event
\* is handled whenever the browser delivers it, between two renders or
\* between a render and its effects.
SyncUserChange(field, value) ==
    /\ ~sync.loading
    /\ sync.inputs < MaxInputs
    /\ value # sync.state[field]
    /\ sync' = [sync EXCEPT !.nextState[field] = value,
                            !.latest[field] = value,
                            !.inputs = sync.inputs + 1]
    /\ UNCHANGED <<urlOp, urlModel, urlParams, urlParsed, explorer, debounce>>
    /\ UNCHANGED <<catalog, pageVars, svcVars, favVars>>

SyncInit ==
    /\ catalog = fallbackMovies
    /\ PageInit /\ SvcInit /\ FavInit
    /\ urlOp = "idle"
    /\ urlModel = DefaultQuery
    /\ urlParams = <<>>
    /\ urlParsed = EmptyParams
    /\ explorer = ExplorerDefaults
    /\ debounce = DebounceOf(<<>>)
    /\ \E searchParams \in SyncURLs : sync = SyncOf(searchParams)

SyncNext ==
    \/ SyncRunEffects
    \/ SyncRender
    \/ SyncLoadDone
    \/ \E field \in DOMAIN ParamOf : \E value \in SyncInputs[field] :
           SyncUserChange(field, value)

\* React runs the effects of a committed render and renders the updates that
\* are queued, and the browser runs the timers that are due
SpecSync ==
    /\ SyncInit /\ [][SyncNext]_vars
    /\ WF_vars(SyncRunEffects) /\ WF_vars(SyncRender) /\ WF_vars(SyncLoadDone)

---------------------------------------------------------------------------
(* Favourites: useLocalStorage('movie-favorites', []) as each page uses    *)
(* it, the toggle handlers of the three pages, and the details modal.      *)

\* JSON.stringify of an array of numbers
RECURSIVE JSONstringifyItems(_)
JSONstringifyItems(arr) ==
    IF arr = <<>> THEN <<>>
    ELSE toString(Head(arr))
         \o (IF Len(arr) > 1 THEN <<",">> \o JSONstringifyItems(Tail(arr)) ELSE <<>>)

JSONstringify(arr) == <<"[">> \o JSONstringifyItems(arr) \o <<"]">>

RECURSIVE JSONparseItems(_)
JSONparseItems(pieces) ==
    IF pieces = <<>> THEN [ok |-> TRUE, value |-> <<>>]
    ELSE LET piece == Head(pieces)
             rest  == JSONparseItems(Tail(pieces))
         IN  IF piece # <<>> /\ (\A i \in 1..Len(piece) : IndexOf(Digits, piece[i]) > 0)
                /\ (Len(piece) = 1 \/ piece[1] # "0")
             THEN [ok |-> rest.ok, value |-> <<digitsValue(piece, 0)>> \o rest.value]
             ELSE [ok |-> FALSE, value |-> <<>>]

\* JSON texts that are no array: the empty object, null, a number
JSONnonArrays == { <<"{","}">>, <<"n","u","l","l">>, <<"5">> }

\* JSON.parse of a text that is an array of numbers (array: TRUE, value: its
\* items) or one of JSONnonArrays (array: FALSE); any other text of the model
\* throws (ok: FALSE)
JSONparse(text) ==
    IF Len(text) >= 2 /\ text[1] = "[" /\ text[Len(text)] = "]"
    THEN IF Len(text) = 2 THEN [ok |-> TRUE, array |-> TRUE, value |-> <<>>]
         ELSE LET items == JSONparseItems(split(SubSeq(text, 2, Len(text) - 1), ","))
              IN  [ok |-> items.ok, array |-> TRUE, value |-> items.value]
    ELSE IF text \in JSONnonArrays
    THEN [ok |-> TRUE, array |-> FALSE, value |-> <<>>]
    ELSE [ok |-> FALSE, array |-> FALSE, value |-> <<>>]

\* useLocalStorage, the useState initializer: getItem gives null (here <<>>)
\* when nothing is stored
useLocalStorageRead(item, initialValue) ==
    IF item = <<>> THEN initialValue
    ELSE IF JSONparse(item).ok THEN JSONparse(item).value ELSE initialValue

\* Whether the value the initializer returns is an array: the initial value
\* [] is one, a parsed value is whatever JSON.parse made of the item
useLocalStorageReadIsArray(item) ==
    IF item = <<>> THEN TRUE
    ELSE IF JSONparse(item).ok THEN JSONparse(item).array ELSE TRUE

\* The page's render calls favorites.includes, which throws a TypeError when
\* favorites is no array; no component catches it
RenderThrows == ~favoritesIsArray

Routes == {"home", "all-movies", "favorites"}

\* The updater each page hands to setFavorites
toggleUpdater(page, prevFavorites, movieId) ==
    IF page = "favorites"
    THEN filterIn(prevFavorites, SetOf(prevFavorites) \ {movieId})
    ELSE IF arrayIncludes(prevFavorites, movieId)
         THEN filterIn(prevFavorites, SetOf(prevFavorites) \ {movieId})
         ELSE Append(prevFavorites, movieId)

FavIds == 1..MaxFavId

\* The records a page lists: the catalog on the home and All Movies pages,
\* the favourite records on the Favorites page
ListedIds ==
    LET all == {catalog[i].id : i \in 1..Len(catalog)}
    IN  IF RenderThrows THEN {}
        ELSE IF route = "favorites" THEN all \cap SetOf(storedValue) ELSE all

\* The modal is on screen
ModalShown == selectedMovie # NoMovie /\ isModalOpen

\* The ids whose toggle can be clicked: the modal's record while the modal
\* covers the page, the listed records otherwise
ToggleIds == IF ModalShown THEN {selectedMovie} ELSE ListedIds \cap FavIds

\* The route is opened: the page mounts and useLocalStorage reads the store
Navigate(r) ==
    /\ route' = r
    /\ favorites' = useLocalStorageRead(storage, <<>>)
    /\ favoritesIsArray' = useLocalStorageReadIsArray(storage)
    /\ selectedMovie' = NoMovie
    /\ isModalOpen' = FALSE
    /\ clearTimers' = 0
    /\ toggled' = <<>>
    /\ favBefore' = favorites'
    /\ storedValue' = favorites'
    /\ calls' = <<>>
    /\ UNCHANGED <<storage, home>>
    /\ UNCHANGED <<catalog, pageVars, svcVars, urlVars>>

handleMovieSelect(movieId) ==
    /\ ~ModalShown
    /\ selectedMovie' = movieId
    /\ isModalOpen' = TRUE
    /\ UNCHANGED <<route, favorites, favoritesIsArray, storage, clearTimers, toggled, favBefore,
                   storedValue, calls, home>>
    /\ UNCHANGED <<catalog, pageVars, svcVars, urlVars>>

handleModalClose ==
    /\ ModalShown
    /\ clearTimers < MaxClearTimers
    /\ isModalOpen' = FALSE
    /\ clearTimers' = clearTimers + 1
    /\ UNCHANGED <<route, favorites, favoritesIsArray, storage, selectedMovie, toggled, favBefore,
                   storedValue, calls, home>>
    /\ UNCHANGED <<catalog, pageVars, svcVars, urlVars>>

\* The 300 ms timer of handleModalClose fires
ClearSelectedMovie ==
    /\ clearTimers > 0
    /\ clearTimers' = clearTimers - 1
    /\ selectedMovie' = NoMovie
    /\ UNCHANGED <<route, favorites, favoritesIsArray, storage, isModalOpen, toggled, favBefore,
                   storedValue, calls, home>>
    /\ UNCHANGED <<catalog, pageVars, svcVars, urlVars>>

\* A setValue that puts the state back when the write fails
setValueRollsBack(page, movieId, closure, item, setItemThrows) ==
    LET valueToStore == toggleUpdater(page, closure, movieId)
    IN  [storedValue |-> IF setItemThrows THEN closure ELSE valueToStore,
         item        |-> IF setItemThrows THEN item ELSE JSONstringify(valueToStore),
         thrown      |-> FALSE]

\* A setValue that writes the value it read instead of the new one
setValueWritesOld(page, movieId, closure, item, setItemThrows) ==
    LET valueToStore == toggleUpdater(page, closure, movieId)
    IN  [storedValue |-> valueToStore,
         item        |-> IF setItemThrows THEN item ELSE JSONstringify(closure),
         thrown      |-> FALSE]

\* useLocalStorage's setValue called with the page's updater for movieId,
\* by a handler of the render that read closure as storedValue: the state
\* handed to setStoredValue, the item of the store and whether an exception
\* leaves the call.  setItemThrows: localStorage.setItem throws; the state is
\* set before it, and the catch logs a warning and returns.
setValue(page, movieId, closure, item, setItemThrows) ==
    LET valueToStore == toggleUpdater(page, closure, movieId)
    IN  [storedValue |-> valueToStore,
         item        |-> IF setItemThrows THEN item ELSE JSONstringify(valueToStore),
         thrown      |-> FALSE]

\* The page's handleToggleFavorite: one call of setFavorites with the updater
handleToggleFavorite(movieId, setItemThrows) ==
    /\ movieId \in ToggleIds
    /\ LET set == setValue(route, movieId, storedValue, storage, setItemThrows)
           call == [id |-> movieId, failed |-> setItemThrows, thrown |-> set.thrown,
                    before |-> SetOf(favorites)]
       IN  /\ favorites' = set.storedValue
           /\ storage' = set.item
           /\ calls' = IF calls = <<>> THEN <<call>> ELSE <<calls[Len(calls)], call>>
    /\ IF Len(toggled) = 1 /\ toggled[1] = movieId
       THEN /\ toggled' = Append(toggled, movieId)
            /\ favBefore' = favBefore
       ELSE /\ toggled' = <<movieId>>
            /\ favBefore' = favorites
    /\ UNCHANGED <<route, favoritesIsArray, selectedMovie, isModalOpen, clearTimers, storedValue,
                   home>>
    /\ UNCHANGED <<catalog, pageVars, svcVars, urlVars>>

\* React renders the page again after setStoredValue changed the state: the
\* hook returns the new storedValue and a new setValue closing over it
Render ==
    /\ storedValue # favorites
    /\ storedValue' = favorites
    /\ UNCHANGED <<route, favorites, favoritesIsArray, storage, selectedMovie, isModalOpen,
                   clearTimers, toggled, favBefore, calls, home>>
    /\ UNCHANGED <<catalog, pageVars, svcVars, urlVars>>

\* What the store holds when the application is opened: nothing, a saved
\* list, a text that is no JSON, or a JSON text that is no array
StoredItems ==
    { <<>>, JSONstringify(<<1>>), JSONstringify(<<2, 1>>), <<"[","1",",">> }
        \cup JSONnonArrays

FavoritesInit ==
    /\ catalog = fallbackMovies
    /\ PageInit /\ SvcInit /\ UrlInit
    /\ route \in Routes
    /\ storage \in StoredItems
    /\ favorites = useLocalStorageRead(storage, <<>>)
    /\ favoritesIsArray = useLocalStorageReadIsArray(storage)
    /\ selectedMovie = NoMovie
    /\ isModalOpen = FALSE
    /\ clearTimers = 0
    /\ toggled = <<>>
    /\ favBefore = favorites
    /\ storedValue = favorites
    /\ calls = <<>>
    /\ home = [mounted |-> FALSE, moviesByGenre |-> <<>>]

FavoritesNext ==
    \/ \E r \in Routes : Navigate(r)
    \/ \E id \in ListedIds \cap FavIds : handleMovieSelect(id)
    \/ handleModalClose
    \/ ClearSelectedMovie
    \/ \E id \in FavIds, setItemThrows \in BOOLEAN :
           handleToggleFavorite(id, setItemThrows)
    \/ Render

SpecFav == FavoritesInit /\ [][FavoritesNext]_vars

\* The store alone: pages are opened, hearts are clicked on the cards and
\* React renders, with the modal never opened
StoreNext ==
    \/ \E r \in Routes : Navigate(r)
    \/ \E id \in FavIds, setItemThrows \in BOOLEAN :
           handleToggleFavorite(id, setItemThrows)
    \/ Render

SpecStore == FavoritesInit /\ [][StoreNext]_vars

---------------------------------------------------------------------------
(* HomePage: the records organised by genre, for the search term App hands *)
(* down.                                                                   *)

\* The genres that get a section of their own
mainGenres == <<Action, SciFi, Drama>>

MoreMovies == <<"M","o","r","e"," ","M","o","v","i","e","s">>

\* The sections of the effect, in the order the keys are added: a section
\* for each main genre with a record, then 'More Movies' for the records
\* with no main genre
RECURSIVE mainSections(_, _)
mainSections(genres, filtered) ==
    IF genres = <<>> THEN <<>>
    ELSE LET genreMovies == filterIn(filtered,
                 {m \in SetOf(filtered) : arrayIncludes(m.genre, Head(genres))})
         IN  (IF Len(genreMovies) > 0
              THEN <<[genre |-> Head(genres), movies |-> genreMovies]>> ELSE <<>>)
             \o mainSections(Tail(genres), filtered)

organized(query) ==
    LET allMovies == getAllMovies
        filtered == IF query # <<>> THEN searchMovies(query) ELSE allMovies
        remainingMovies == filterIn(filtered,
            {m \in SetOf(filtered) :
                ~\E i \in 1..Len(m.genre) : arrayIncludes(mainGenres, m.genre[i])})
    IN  mainSections(mainGenres, filtered)
        \o (IF Len(remainingMovies) > 0
            THEN <<[genre |-> MoreMovies, movies |-> remainingMovies]>> ELSE <<>>)

\* Object.values(moviesByGenre).flat()
RECURSIVE flatValues(_)
flatValues(sections) ==
    IF sections = <<>> THEN <<>>
    ELSE Head(sections).movies \o flatValues(Tail(sections))

\* The number the page shows in 'Found N movies'
FoundCount == Len(flatValues(home.moviesByGenre))

\* The search terms App hands to the home page
HomeSearchTerms ==
    SearchTerms \cup PageSearchTerms \cup SharedSearchTerms
        \cup { <<"i","n","c","e","p","t","i","o","n">>,
            <<"m","a","t","r","i","x">>,
            <<"a">>,
            <<"e">>,
            <<"o">>,
            <<"d","a","r","k">>,
            <<"k","n","i","g","h","t">>,
            <<"i","n","t","e","r">>,
            <<"s","t","a","r">>,
            <<"M","o","v","i","e"," ","1">>,
            <<"M","O","V","I","E">>,
            <<"m","o","v","i","e"," ","2">>,
            <<"x">>,
            <<"i","n"," ">>,
            <<"g","o","d">>,
            <<"p","u","l","p">>,
            <<"f","i","g","h","t">>,
            <<"t","h","e"," ","m">>,
            <<" ","t","h","e">>,
            <<"e","r">> }

\* The home page mounts: the effect organises the records
HomeMount ==
    /\ ~home.mounted
    /\ home' = [mounted |-> TRUE, moviesByGenre |-> organized(searchQuery)]
    /\ UNCHANGED <<route, favorites, favoritesIsArray, storage, selectedMovie, isModalOpen,
                   clearTimers, toggled, favBefore, storedValue, calls>>
    /\ UNCHANGED <<catalog, pageVars, svcVars, urlVars>>

\* The search term changes while the home page is shown: the effect runs
\* again (deps: searchQuery)
HomeSearchChange(query) ==
    /\ home.mounted
    /\ query # searchQuery
    /\ searchQuery' = query
    /\ home' = [home EXCEPT !.moviesByGenre = organized(query)]
    /\ UNCHANGED <<movies, filteredMovies, loading, mounted, selectedGenre, sortBy, viewMode,
                   displayCount, hasMoreMovies, paginationMode, currentPage, lastAction>>
    /\ UNCHANGED <<route, favorites, favoritesIsArray, storage, selectedMovie, isModalOpen,
                   clearTimers, toggled, favBefore, storedValue, calls>>
    /\ UNCHANGED <<catalog, svcVars, urlVars>>

HomeInit ==
    /\ catalog \in Catalogs
    /\ PageInit /\ SvcInit /\ UrlInit
    /\ route = "home"
    /\ storage = <<>>
    /\ favorites = <<>>
    /\ favoritesIsArray = TRUE
    /\ selectedMovie = NoMovie
    /\ isModalOpen = FALSE
    /\ clearTimers = 0
    /\ toggled = <<>>
    /\ favBefore = <<>>
    /\ storedValue = <<>>
    /\ calls = <<>>
    /\ home = [mounted |-> FALSE, moviesByGenre |-> <<>>]

HomeNext ==
    \/ HomeMount
    \/ \E query \in HomeSearchTerms : HomeSearchChange(query)

SpecHome == HomeInit /\ [][HomeNext]_vars

---------------------------------------------------------------------------
(* Properties of the catalog service.                                      *)

Ids(list) == [i \in 1..Len(list) |-> list[i].id]

\* The maximal runs of non-white-space characters of s
WhitespaceTokens(s) ==
    LET runs == {r \in (1..Len(s)) \X (1..Len(s)) :
                    /\ r[1] <= r[2]
                    /\ \A k \in r[1]..r[2] : s[k] \notin WhiteSpace
                    /\ (r[1] = 1 \/ s[r[1] - 1] \in WhiteSpace)
                    /\ (r[2] = Len(s) \/ s[r[2] + 1] \in WhiteSpace)}
    IN  {SubSeq(s, r[1], r[2]) : r \in runs}

SearchKeeps(query, movie, tokens) ==
    \/ trim(query) = <<>>
    \/ includes(toLowerCase(movie.title), trim(toLowerCase(query)))
    \/ \E t \in tokens : Len(t) > 2 /\ includes(toLowerCase(movie.title), t)

\* C4: searchMovies keeps a record if and only if the term is blank, or the
\* lowercased title contains the trimmed lowercased term, or some
\* white-space-delimited token of the term longer than 2 characters is a
\* substring of the lowercased title.
C4_SearchFilter ==
    svcOp = "searchMovies" =>
        \A m \in SetOf(catalog) :
            (m \in SetOf(svcOut)) <=>
                SearchKeeps(svcQuery, m, WhitespaceTokens(trim(toLowerCase(svcQuery))))

\* Supporting C4: with tokens delimited by the space character alone (what
\* split(' ') yields) the equivalence holds, and the result keeps input order.
C4_SearchFilterSpaceDelimited ==
    svcOp = "searchMovies" =>
        /\ \A m \in SetOf(catalog) :
              (m \in SetOf(svcOut)) <=>
                  SearchKeeps(svcQuery, m, SetOf(split(trim(toLowerCase(svcQuery)), " ")))
        /\ svcOut = filterIn(catalog, SetOf(svcOut))

HasGenre(m, g) == g \in SetOf(m.genre)

\* C5: filterByGenre passes every record for 'all'; for any other genre the
\* result is exactly the records whose genre list contains that string
\* (case-sensitive), in input order; on the seed catalog 'Sci-Fi' yields
\* Inception (1), Interstellar (3), The Matrix (4) and Avengers: Endgame (6).
C5_GenreFilter ==
    svcOp = "filterByGenre" =>
        /\ svcGenre = All => svcOut = svcIn
        /\ svcGenre # All => svcOut = SelectSeq(svcIn, LAMBDA m : HasGenre(m, svcGenre))
        /\ (svcGenre = SciFi /\ svcIn = fallbackMovies) => Ids(svcOut) = <<1, 3, 4, 6>>

C5_Witness ==
    /\ svcOp = "filterByGenre" /\ svcGenre = SciFi /\ svcIn = fallbackMovies
    /\ Len(svcOut) = 4

KeyBefore(sortKey, a, b) ==
    CASE sortKey = "title"       -> localeCompare(a.title, b.title) <= 0
      [] sortKey = "year"        -> a.year >= b.year
      [] sortKey = "rating"      -> a.rating <= b.rating
      [] sortKey = "rating-desc" -> a.rating >= b.rating

SameKey(sortKey, a, b) == KeyBefore(sortKey, a, b) /\ KeyBefore(sortKey, b, a)

\* out holds the records of in, ordered by the key, records of equal key in
\* their order of in
StableSorted(in, out, sortKey) ==
    /\ Len(out) = Len(in)
    /\ \A i \in 1..(Len(out) - 1) : KeyBefore(sortKey, out[i], out[i + 1])
    /\ \A x \in SetOf(in) \cup SetOf(out) :
          LET class == {y \in SetOf(in) \cup SetOf(out) : SameKey(sortKey, x, y)}
          IN  filterIn(out, class) = filterIn(in, class)

\* C6: for each sort key sortMovies returns a permutation of its input,
\* ordered by the key, in which records of equal key keep their input order;
\* the seed catalog by rating-desc is The Dark Knight, Inception, The Matrix,
\* Interstellar, Parasite, Avengers: Endgame, Joker, La La Land.
C6_SortStable ==
    /\ (svcOp = "sortMovies" /\ svcSort \in SortKeys) => StableSorted(svcIn, svcOut, svcSort)
    /\ (svcOp \in {"sortMovies", "getFilteredMovies"} /\ svcIn = fallbackMovies
          /\ svcSort = "rating-desc"
          /\ (svcOp = "getFilteredMovies" => svcQuery = <<>> /\ svcGenre = All))
       => Ids(svcOut) = <<2, 1, 4, 3, 5, 6, 8, 7>>

C6_Witness ==
    /\ svcOp = "sortMovies" /\ svcSort = "title" /\ Len(svcIn) > 12
    /\ \E i \in 1..Len(svcOut) : \E j \in (i + 1)..Len(svcOut) :
          svcOut[i].title = svcOut[j].title /\ svcOut[i].id < svcOut[j].id

\* C7: sorting the list sortMovies returned, by the same key, returns the
\* identical sequence.
C7_SortIdempotent ==
    svcOp = "sortMoviesAgain" => svcOut = svcIn

C7_Witness ==
    /\ svcOp = "sortMoviesAgain" /\ svcSort = "rating" /\ Len(svcIn) = 2
    /\ svcIn[1].rating = svcIn[2].rating /\ svcIn[1].id # svcIn[2].id

\* The genre filter first, then the search filter
GenreThenSearch(search, genre) ==
    filterIn(filterByGenre(genre, getAllMovies), SetOf(searchMovies(search)))

\* C8: the records the pipeline returns (search filter, then genre filter)
\* are the records obtained by the genre filter followed by the search filter.
C8_FilterCommute ==
    svcOp = "getFilteredMovies" =>
        SetOf(svcOut) = SetOf(GenreThenSearch(svcQuery, svcGenre))

C8_Witness ==
    /\ svcOp = "getFilteredMovies" /\ trim(svcQuery) # <<>> /\ svcGenre # All
    /\ svcOut # <<>>
    /\ Len(svcOut) < Len(searchMovies(svcQuery))
    /\ Len(svcOut) < Len(filterByGenre(svcGenre, catalog))

---------------------------------------------------------------------------
(* Properties of the All Movies page.                                      *)

RECURSIVE PagesUpTo(_)
\* The paged-mode slices of pages 1..p of the filtered list, concatenated
PagesUpTo(p) ==
    IF p <= 0 THEN <<>>
    ELSE PagesUpTo(p - 1)
         \o displayedMoviesOf(filteredMovies, "pages", p, displayCount)

\* C1: in paged mode the slices of pages 1..totalPages, concatenated in
\* order, are exactly the filtered list (nothing repeated, nothing left out);
\* every page but the last holds 12 records, the last holds 1 to 12, and the
\* page shown is the slice of the current page.
C1_PaginationCoverage ==
    LET N == Len(filteredMovies)
        PageOf(p) == displayedMoviesOf(filteredMovies, "pages", p, displayCount)
    IN  /\ PagesUpTo(totalPages) = filteredMovies
        /\ \A p \in 1..totalPages :
               /\ p < totalPages => Len(PageOf(p)) = moviesPerPage
               /\ p = totalPages =>
                      /\ Len(PageOf(p)) = N - moviesPerPage * (totalPages - 1)
                      /\ Len(PageOf(p)) \in 1..moviesPerPage
        /\ (paginationMode = "pages" /\ currentPage \in 1..totalPages) =>
               displayedMovies = PageOf(currentPage)

\* The last, partial page of a list of three or more pages is on screen
C1_Witness ==
    /\ mounted /\ ~loading
    /\ paginationMode = "pages"
    /\ totalPages >= 3
    /\ currentPage = totalPages
    /\ displayedMovies # <<>>
    /\ Len(displayedMovies) < moviesPerPage

\* C9: totalPages is ceil(matches / 12) with a minimum of 1; when nothing
\* matches, nothing is shown and totalPages is 1.
C9_TotalPagesAtLeastOne ==
    (mounted /\ ~loading) =>
        /\ totalPages >= 1
        /\ totalPages * moviesPerPage >= Len(filteredMovies)
        /\ filteredMovies = <<>> => (displayedMovies = <<>> /\ totalPages = 1)

\* C10: once a page was requested, and after any sequence of actions, the
\* page of paged mode lies in 1..max(1, totalPages); with 8 matches it is 1.
C10_PageClamped ==
    (mounted /\ ~loading /\ paginationMode = "pages") =>
        /\ currentPage >= 1
        /\ currentPage <= (IF totalPages > 1 THEN totalPages ELSE 1)
        /\ Len(filteredMovies) = 8 => currentPage = 1

\* C11: a change of the sort key leaves the pagination position alone: the
\* page in paged mode, the loaded count in infinite mode.
C11_SortKeepsPosition ==
    [][\A k \in SortKeys :
          handleSortChange(k) =>
              /\ paginationMode = "pages" => currentPage' = currentPage
              /\ paginationMode = "infinite" => displayCount' = displayCount]_vars

\* C11, amended: a change of the sort key resets the pagination position as
\* a change of search term or genre does: page 1 in paged mode, 12 loaded
\* records (and the hasMore flag recomputed) in infinite mode.
C11_SortResetsPosition ==
    [][\A k \in SortKeys :
          (handleSortChange(k) /\ k # sortBy) =>
              IF paginationMode = "pages"
              THEN currentPage' = 1
              ELSE /\ displayCount' = 12
                   /\ hasMoreMovies' = (Len(filteredMovies') > 12)]_vars

\* A sort change in paged mode on a list of three pages left page 1
C11_Witness ==
    /\ lastAction = "handleSortChange"
    /\ sortBy # "rating-desc"
    /\ paginationMode = "pages"
    /\ totalPages >= 3
    /\ currentPage = 1

C14_ModeSwitchResets ==
    lastAction = "handlePaginationModeChange" =>
        /\ paginationMode = "infinite" => displayCount = 12
        /\ paginationMode = "pages" => currentPage = 1

\* Infinite mode was switched to from a later page of paged mode
C14_Witness ==
    /\ lastAction = "handlePaginationModeChange"
    /\ paginationMode = "infinite"
    /\ displayCount = 12
    /\ currentPage > 1

\* C15: in paged mode a load-more signal changes neither the loaded count
\* nor the records on screen.
C15_LoadMoreOnlyInfinite ==
    [][(handleLoadMore /\ paginationMode = "pages") =>
          (displayCount' = displayCount /\ displayedMovies' = displayedMovies)]_vars

\* C16: after load-more (in infinite mode, where it is valid) the loaded
\* count does not exceed the number of matches.
C16_LoadedCountCapped ==
    (lastAction = "handleLoadMore" /\ paginationMode = "infinite") =>
        displayCount <= Len(filteredMovies)

\* C16, amended: load-more adds exactly 12 to the loaded count, without a
\* cap; the records on screen never outnumber the matches, and in infinite
\* mode load-more is signalled only below the number of matches, so the
\* loaded count stays below matches + 12 and the screen shows the smaller of
\* the loaded count and the matches.
C16_LoadMoreAddsTwelve ==
    [][handleLoadMore =>
          /\ displayCount' = displayCount + 12
          /\ Len(displayedMovies') <= Len(filteredMovies')
          /\ paginationMode = "infinite" =>
                 /\ displayCount < Len(filteredMovies)
                 /\ displayCount' < Len(filteredMovies) + 12
                 /\ Len(displayedMovies') =
                        (IF displayCount' < Len(filteredMovies')
                         THEN displayCount' ELSE Len(filteredMovies'))]_vars

\* Load-more took the loaded count past the number of matches
C16_Witness ==
    /\ lastAction = "handleLoadMore"
    /\ paginationMode = "infinite"
    /\ displayCount > Len(filteredMovies)
    /\ Len(displayedMovies) = Len(filteredMovies)

\* C17: in infinite mode, from the initial state on, the hasMore flag is
\* (number of filtered records > loaded count).
C17_HasMoreFlag ==
    paginationMode = "infinite" =>
        (hasMoreMovies <=> Len(filteredMovies) > displayCount)

\* C17, amended: in infinite mode, once the mount effect has run (so whenever
\* the grid is rendered), the hasMore flag is (filtered records > loaded
\* count).
C17_HasMoreFlagOnceMounted ==
    (mounted /\ paginationMode = "infinite") =>
        (hasMoreMovies <=> Len(filteredMovies) > displayCount)

\* The grid is shown in infinite mode after a load-more, with more to come
C17_Witness ==
    /\ mounted /\ ~loading
    /\ paginationMode = "infinite"
    /\ displayCount > 12
    /\ hasMoreMovies
    /\ Len(filteredMovies) > displayCount


---------------------------------------------------------------------------
(* Properties of the URL codec.                                            *)

\* C2: parseURLParameters, applied to the query string generateShareableURL
\* made of a browse state (with the catalog's genres as availableGenres),
\* gives back every non-default field of that state with the same value.
C2_URLRoundTrip ==
    urlOp = "parsed" =>
        /\ urlModel.search # DefaultQuery.search =>
               urlParsed.search = <<urlModel.search>>
        /\ urlModel.genre # DefaultQuery.genre =>
               urlParsed.genre = <<urlModel.genre>>
        /\ urlModel.sort # DefaultQuery.sort =>
               urlParsed.sort = <<urlModel.sort>>
        /\ urlModel.view # DefaultQuery.view =>
               urlParsed.view = <<urlModel.view>>
        /\ urlModel.pagination # DefaultQuery.pagination =>
               urlParsed.pagination = <<urlModel.pagination>>
        /\ (urlModel.pagination = StringChars["pages"]
              /\ urlModel.page # DefaultQuery.page) =>
               urlParsed.page = <<urlModel.page>>

\* The <<name, value>> pairs a query string holds
QueryPairs == urlParamsParse(urlParams)
ParamNames(list) == {list[i][1] : i \in 1..Len(list)}

\* C18: generateShareableURL writes a key only for a non-default value: q
\* for a non-blank search, genre (lower-cased) unless 'all', sort unless
\* 'rating-desc', view unless 'grid', pagination unless 'infinite', page only
\* in paged mode above page 1; the all-defaults state has no query string.
C18_EncodeNonDefaults ==
    urlOp \in {"shared", "parsed"} =>
        LET has(name) == name \in ParamNames(QueryPairs)
            val(name) == urlParamsGet(QueryPairs, name)
        IN  /\ ParamNames(QueryPairs) \subseteq
                   {ParamQ, ParamGenre, ParamSort, ParamView, ParamPagination, ParamPage}
            /\ Cardinality(ParamNames(QueryPairs)) = Len(QueryPairs)
            /\ has(ParamQ) <=> (\E i \in 1..Len(urlModel.search) :
                                    urlModel.search[i] \notin WhiteSpace)
            /\ has(ParamGenre) <=> urlModel.genre # All
            /\ has(ParamGenre) =>
                   /\ val(ParamGenre) = toLowerCase(val(ParamGenre))
                   /\ val(ParamGenre) = toLowerCase(urlModel.genre)
            /\ has(ParamSort) <=> urlModel.sort # StringChars["rating-desc"]
            /\ has(ParamSort) => val(ParamSort) = urlModel.sort
            /\ has(ParamView) <=> urlModel.view # StringChars["grid"]
            /\ has(ParamView) => val(ParamView) = urlModel.view
            /\ has(ParamPagination) <=> urlModel.pagination # StringChars["infinite"]
            /\ has(ParamPagination) => val(ParamPagination) = urlModel.pagination
            /\ has(ParamPage) <=>
                   (urlModel.pagination = StringChars["pages"] /\ urlModel.page > 1)
            /\ has(ParamPage) => val(ParamPage) = toString(urlModel.page)
            /\ urlModel = DefaultQuery => urlParams = <<>>

\* A blank search, a genre and a page above 1 in infinite mode are shared:
\* the URL carries the genre alone
C18_Witness ==
    /\ urlOp = "shared"
    /\ urlModel.search = <<" ">>
    /\ urlModel.genre = SciFi
    /\ urlModel.pagination = StringChars["infinite"]
    /\ urlModel.page > 1
    /\ ParamNames(QueryPairs) = {ParamGenre}

\* What the documented format makes of the value typed for a parameter
Expected(table, name) ==
    (CHOOSE e \in table : formDecode(e.typed) = urlParamsGet(QueryPairs, name)).expect

\* C19: parseURLParameters gives a result for every query string; a value of
\* sort, view, pagination or page that is not valid gives no entry, an
\* unknown genre gives 'all', and every valid value in the same query string
\* is decoded to its value.
C19_DecodeDropsInvalid ==
    urlOp = "typed" =>
        /\ DOMAIN urlParsed = DOMAIN EmptyParams
        /\ urlParsed.search = Expected(TypedQ, ParamQ)
        /\ urlParsed.genre = Expected(TypedGenre, ParamGenre)
        /\ urlParsed.sort = Expected(TypedSort, ParamSort)
        /\ urlParsed.view = Expected(TypedView, ParamView)
        /\ urlParsed.pagination = Expected(TypedPagination, ParamPagination)
        /\ urlParsed.page = Expected(TypedPage, ParamPage)

---------------------------------------------------------------------------
(* Properties of the state initialised from the URL.                       *)

\* C13: in every state of the explorer, including those initialised from
\* URL parameters, the selected genre is 'all' or one of the catalog's
\* genres and the sort key is one of the known sort keys.
C13_QueryValuesValid ==
    explorer.mounted =>
        /\ explorer.selectedGenre \in {All} \cup SetOf(getGenres)
        /\ explorer.sortBy \in {StringChars[k] : k \in SortKeys}

\* The calls of the service made on its own list
OwnListOps ==
    {"searchMovies", "getFilteredMovies", "getAllMovies", "getGenres",
     "getMovieById", "getMovieStats"}

---------------------------------------------------------------------------
(* Properties of the favourites.                                           *)

\* C3: on every page with a toggle, the page's favourite toggle called twice
\* in a row for one id leaves that id's membership of the favourites as it
\* was, and the membership of every other id unchanged.
C3_ToggleInvolutive ==
    Len(toggled) = 2 =>
        \A id \in FavIds :
            arrayIncludes(favorites, id) <=> arrayIncludes(favBefore, id)

\* The texts that are a JSON array of ids
StoredIdArrays ==
    {JSONstringify(arr) : arr \in UNION {[1..n -> FavIds] : n \in 0..MaxFavId}}

\* C20: at startup (no toggle since the page read the store), a persisted
\* value that is absent or is not a JSON array of ids gives the empty
\* favourites, and no error leaves the read or the render that uses it.
C20_ReadFallback ==
    (toggled = <<>> /\ storage \notin StoredIdArrays) =>
        (favorites = <<>> /\ favoritesIsArray /\ ~RenderThrows)

\* C29: in every reachable state an open modal has a selected movie
\* (isModalOpen implies selectedMovie is not null), also when the modal is
\* closed and another movie is selected before the 300 ms timer fires.
C29_ModalConsistent ==
    isModalOpen => selectedMovie # NoMovie

\* The last call of setValue since the page was opened
LastCall == calls[Len(calls)]

\* C21: when the storage write of a favourites toggle fails, the in-memory
\* favourites still reflect the toggle (the id's membership is the opposite
\* of the one the page showed, nothing is rolled back), the persisted value
\* is unchanged, and no error leaves the call.
C21_FailedWriteKeepsToggle ==
    [][\A id \in FavIds :
          handleToggleFavorite(id, TRUE) =>
              /\ arrayIncludes(favorites', id) # arrayIncludes(storedValue, id)
              /\ storage' = storage
              /\ ~LastCall'.thrown
              /\ ~RenderThrows']_vars

C21_Witness ==
    /\ calls # <<>>
    /\ LastCall.failed /\ ~LastCall.thrown
    /\ arrayIncludes(favorites, LastCall.id)
    /\ ~arrayIncludes(useLocalStorageRead(storage, <<>>), LastCall.id)

\* C22: after toggles whose storage writes succeed (the latest write
\* succeeding is enough), the persisted array equals the in-memory
\* favourites, so that reading the store again, as a reload or another page
\* does, gives exactly the favourites that were in memory.
C22_PersistenceMirror ==
    (calls = <<>> \/ ~LastCall.failed) =>
        /\ useLocalStorageRead(storage, <<>>) = favorites
        /\ useLocalStorageReadIsArray(storage) = favoritesIsArray
        /\ calls # <<>> =>
               /\ JSONparse(storage).ok /\ JSONparse(storage).array
               /\ JSONparse(storage).value = favorites

C22_Witness ==
    /\ Len(calls) = 2
    /\ ~calls[1].failed /\ ~calls[2].failed
    /\ Len(favorites) = 2
    /\ JSONparse(storage).value = favorites

\* C23: two toggles of different ids a and b issued one after the other,
\* with or without a render between them, and both written, leave the
\* membership of a and of b flipped relative to the favourites before the
\* first toggle, in memory and in the store.
C23_RapidTogglesKept ==
    (Len(calls) = 2 /\ calls[1].id # calls[2].id /\ ~calls[1].failed /\ ~calls[2].failed) =>
        \A x \in {calls[1].id, calls[2].id} :
            /\ arrayIncludes(favorites, x) # (x \in calls[1].before)
            /\ arrayIncludes(useLocalStorageRead(storage, <<>>), x) # (x \in calls[1].before)

---------------------------------------------------------------------------
(* Properties of the search box.                                           *)

\* C25: on the All Movies page a change of the search term does not
\* recompute the filter and sort pipeline in the step of the keystroke: the
\* filtered list is recomputed only 300 ms after the last keystroke.
C25_SearchDebounced ==
    [][searchQuery' # searchQuery => filteredMovies' = filteredMovies]_vars

---------------------------------------------------------------------------
(* Properties of MovieExplorer's keyboard shortcuts.                       *)

\* C28: in MovieExplorer a keydown of the key k with ctrlKey (or metaKey)
\* invokes handleClearFilters: after it searchQuery is '', selectedGenre is
\* 'all' and sortBy is 'rating-desc'.
C28_CtrlKClearsFilters ==
    explorer.keydown = <<"C","t","r","l","+","k">> =>
        /\ explorer.searchQuery = <<>>
        /\ explorer.selectedGenre = All
        /\ explorer.sortBy = StringChars["rating-desc"]

---------------------------------------------------------------------------
(* Properties of the debounce.                                             *)

\* C24: a debounce has at most one timer pending; each new input cancels the
\* pending timer and schedules one new timer; the debounced value (the
\* argument func runs with) only changes to an input that has been the latest
\* input for the whole delay; and once the input stops, the debounced value
\* eventually equals the last input.
C24_DebounceLastWriteWins ==
    /\ [](Cardinality(debounce.handlers) <= 1 /\ Cardinality(debounce.timeouts) <= 1)
    /\ [][(debounce'.value # debounce.value =>
               debounce'.handlers = {Timer(debounce'.value, DebounceDelay)})
           /\ (debounce'.timeouts \notin {debounce.timeouts, Elapse(debounce.timeouts)} =>
                  debounce'.timeouts \in {{}, {Timer(debounce'.args, DebounceDelay)}})
           /\ (debounce'.debouncedValue # debounce.debouncedValue =>
                  (debounce'.debouncedValue = debounce.value
                      /\ debounce.sinceInput = DebounceDelay))
           /\ (debounce'.ran # debounce.ran =>
                  (debounce'.ran = debounce.args
                      /\ debounce.sinceCall = DebounceDelay))]_vars
    /\ \A v \in DebounceInputs :
           /\ (<>[](debounce.value = v)) => <>[](debounce.debouncedValue = v)
           /\ (<>[](debounce.args = v /\ debounce.sinceCall > 0)) => <>[](debounce.ran = v)

C24_Witness ==
    /\ debounce.value = <<"a","b">> /\ debounce.debouncedValue = <<>>
    /\ debounce.handlers = {Timer(<<"a","b">>, 0)}
    /\ debounce.sinceInput = DebounceDelay
    /\ debounce.ran = <<"a">> /\ debounce.args = <<"a","b">>
    /\ Cardinality(debounce.timeouts) = 1

---------------------------------------------------------------------------
(* Properties of the home page.                                            *)

\* C30: for every search term, the N of 'Found N movies' is the number of
\* distinct catalog records searchMovies matches, and every matched record
\* is in at least one genre section (a main genre's or 'More Movies').
C30_FoundCount ==
    (home.mounted /\ searchQuery # <<>>) =>
        /\ FoundCount = Cardinality(SetOf(searchMovies(searchQuery)))
        /\ SetOf(searchMovies(searchQuery)) \subseteq SetOf(flatValues(home.moviesByGenre))


---------------------------------------------------------------------------
(* Properties of MovieExplorer's URL synchronisation                       *)

\* Nothing is queued, no effect is to run and no load is pending
SyncSettled ==
    /\ sync.effects = {} /\ ~sync.paramsSet /\ sync.loads = 0
    /\ sync.nextState = sync.state /\ sync.nextLoading = sync.loading

\* The URL holds exactly the non-default values of the four controls
SyncURLMatchesState ==
    \A field \in DOMAIN ParamOf :
        paramsOf(sync.searchParams, ParamOf[field]) =
            (IF sync.state[field] = SyncDefaults[field] THEN <<>> ELSE sync.state[field])

\* Every control the user changed holds the user's last value
SyncStateIsLatestInput ==
    \A field \in DOMAIN ParamOf :
        sync.latest[field] # NoInput => sync.state[field] = sync.latest[field]

\* C27: the URL effects and the effect that initializes the state from the URL
\* converge: the renders and effects come to rest, and at rest the URL holds
\* the state of the controls and the controls hold what the user chose last;
\* there is no unbounded ping-pong between the URL and the state
C27_SyncConverges ==
    /\ [](SyncSettled => SyncURLMatchesState /\ SyncStateIsLatestInput)
    /\ <>[]SyncSettled

===========================================================================
